---- MODULE Spec2Model ----
(***************************************************************************)
(* agent-safe: an agent that co-manages a Safe multisig with human owners. *)
(* The model covers the setup wizard (WizardOrchestrator), the persistent  *)
(* store (StateManager), the skill facade (SafeWalletSkill) and the        *)
(* propose / check / execute lifecycle (SafeOperations, SafeService,       *)
(* SafeTxServiceClient).  The Safe SDK, the transaction service and the    *)
(* chain are the environment: their answers are drawn with \E.             *)
(***************************************************************************)
EXTENDS Integers, Sequences, FiniteSets, TLC

(***************************************************************************)
(* Bounds of the model.                                                    *)
(***************************************************************************)
MaxSafes == 1
MaxProposals == 1
\* The records of the registry in the specification of the registry alone.
MaxRecords == 3

(***************************************************************************)
(* Address strings.  v is the 160-bit value, c the letter case of the hex  *)
(* string: "lc" all lower case, "cs" EIP-55 checksummed, "bad" a string    *)
(* that viem's isAddress rejects.                                          *)
(***************************************************************************)
Addr(n, form) == [v |-> n, c |-> form]
NoAddr == [v |-> 0, c |-> "none"]
toLowerCase(a) == [v |-> a.v, c |-> "lc"]
getAddress(a) == [v |-> a.v, c |-> "cs"]
isAddress(a) == a.c \in {"lc", "cs"}

\* Keys generatePrivateKey may draw, by the value of the address they derive.
AgentKeys == {1}
\* The human owners' externally owned accounts.
Humans == {2, 3}
\* Two of the networks of SUPPORTED_CHAINS.
Chains == {8453, 84532}
DEFAULT_CHAIN_ID == 84532

WizardStates ==
    <<"INIT", "AGENT_WALLET_CREATED", "AWAIT_USER_FUNDS_CONFIRMATION",
      "AWAIT_OWNER_ADDRESS", "READY_TO_DEPLOY_SAFE", "SAFE_DEPLOYED", "READY">>

\* Strings a caller may pass as an owner address.
OwnerInputs ==
    {Addr(n, f) : n \in Humans \cup AgentKeys, f \in {"lc", "cs"}}
        \cup {Addr(2, "bad")}

\* The optional threshold argument: absent, or a number.
ThresholdArgs ==
    {[given |-> FALSE, val |-> 0]}
        \cup {[given |-> TRUE, val |-> n] : n \in -1 .. 4}

VARIABLES
    walletFile,      \* wallet.json: the stored agent address, NoAddr if absent
    keyLoaded,       \* KeyManager.account of the running process is set
    wizardState,     \* state.json: wizardState
    agentAddress,    \* state.json: agentAddress
    ownerAddresses,  \* state.json: ownerAddresses
    safeAddress,     \* state.json: safeAddress (the active vault)
    deployTxHash,    \* state.json: deployTxHash
    proposals,       \* state.json: proposals, keyed by safeTxHash
    safes,           \* safes.json: the vault registry
    config,          \* SafeWalletSkill.config.chainId (the active network)
    operations,      \* SafeWalletSkill.operations: NoOps or its (safe, chain)
    remote,          \* the transaction service: records keyed by safeTxHash
    onchain,         \* the safeTxHashes the chain has executed
    deployed,        \* the (safe, chain) pairs at which a Safe contract exists
    inflight,        \* the call suspended at an await, NoCall if none
    ret,             \* what the last call returned or threw
    customTokens,    \* state.json: customTokens, by network
    disk,            \* the files state.json and safes.json
    peer,            \* a second process of the same installation
    walletKey        \* wallet.json: the address its private key derives

vars == <<walletFile, keyLoaded, wizardState, agentAddress, ownerAddresses,
          safeAddress, deployTxHash, proposals, safes, config, operations,
          remote, onchain, deployed, inflight, ret, customTokens, disk,
          peer, walletKey>>

store == <<wizardState, agentAddress, ownerAddresses, safeAddress,
           deployTxHash, proposals, safes>>
skill == <<config, operations>>
world == <<remote, onchain, deployed, inflight>>

NoOps == [safe |-> NoAddr, chain |-> 0]
NoCall == [op |-> "none"]
NoTx == [kind |-> "none", safe |-> 0, chain |-> 0, ref |-> 0]
Fault(o, m) == [op |-> o, threw |-> TRUE, msg |-> m]
Range(s) == {s[i] : i \in 1 .. Len(s)}

(***************************************************************************)
(* StateManager: every mutator changes the in-memory document and saves    *)
(* it, so the operators below give the document after the call.            *)
(***************************************************************************)
\* createInitialState()
InitialState ==
    [wizardState |-> "INIT", agentAddress |-> NoAddr, ownerAddresses |-> <<>>,
     safeAddress |-> NoAddr, deployTxHash |-> NoTx,
     proposals |-> [h \in {} |-> NoTx],
     customTokens |-> [c \in Chains |-> <<>>]]

\* this.state of the first process, before and after a step.
Doc ==
    [wizardState |-> wizardState, agentAddress |-> agentAddress,
     ownerAddresses |-> ownerAddresses, safeAddress |-> safeAddress,
     deployTxHash |-> deployTxHash, proposals |-> proposals,
     customTokens |-> customTokens]

DocAfter ==
    [wizardState |-> wizardState', agentAddress |-> agentAddress',
     ownerAddresses |-> ownerAddresses', safeAddress |-> safeAddress',
     deployTxHash |-> deployTxHash', proposals |-> proposals',
     customTokens |-> customTokens']

\* A variant of SavedDocument that keeps what the file holds and the writer
\* does not: the owners and the proposals of the file are merged in.
SavedDocument_Merged(mem, file) ==
    [mem EXCEPT
        !.ownerAddresses =
            file.ownerAddresses \o
                SelectSeq(mem.ownerAddresses,
                          LAMBDA a : a \notin Range(file.ownerAddresses)),
        !.proposals =
            [h \in DOMAIN file.proposals \cup DOMAIN mem.proposals |->
                IF h \in DOMAIN mem.proposals THEN mem.proposals[h]
                ELSE file.proposals[h]]]

\* saveState: writeFileSync(statePath, JSON.stringify(this.state)); what
\* the file held before is not read.
SavedDocument(mem, file) == mem

\* saveSafes writes a chainId, a bigint, as the string of its digits.
BigIntToString(value) == [digits |-> value]

\* A variant of BigInt that reads every chainId as the default network's.
BigInt_Default(value) == DEFAULT_CHAIN_ID

\* loadSafes revives a chainId from the string of its digits.
BigInt(value) == value.digits

\* safes.json as saveSafes writes the registry.
SavedSafes(reg) ==
    [i \in 1 .. Len(reg) |->
        [reg[i] EXCEPT !.chainId = BigIntToString(@)]]

\* The registry as loadSafes reads safes.json.
LoadedSafes(file) ==
    [i \in 1 .. Len(file) |-> [file[i] EXCEPT !.chainId = BigInt(@)]]

\* The files after a call of the first process that saved the state
\* document, the registry, both or neither.
Persist(stateSaved, safesSaved) ==
    disk' = [state |-> IF stateSaved
                       THEN SavedDocument(DocAfter, disk.state)
                       ELSE disk.state,
             safes |-> IF safesSaved THEN SavedSafes(safes') ELSE disk.safes]

\* A variant of SM_addOwnerAddress without the includes() check.
SM_addOwnerAddress_Always(list, a) == Append(list, a)

SM_addOwnerAddress(list, a) ==
    IF a \in Range(list) THEN list ELSE Append(list, a)

\* A variant of SM_recordSafe that leaves the registry as it is.
SM_recordSafe_Never(reg, safe) == reg

\* A variant of SM_recordSafe that compares the address alone.
SM_recordSafe_ByAddress(reg, safe) ==
    IF \E i \in 1 .. Len(reg) :
           toLowerCase(reg[i].address) = toLowerCase(safe.address)
    THEN reg
    ELSE Append(reg, safe)

SM_recordSafe(reg, safe) ==
    IF \E i \in 1 .. Len(reg) :
           /\ toLowerCase(reg[i].address) = toLowerCase(safe.address)
           /\ reg[i].chainId = safe.chainId
    THEN reg
    ELSE Append(reg, safe)

\* addCustomToken: the token is pushed on the list of its network unless
\* that list holds its address already (letter case ignored).
SM_addCustomToken(custom, chainId, token) ==
    IF \E i \in 1 .. Len(custom[chainId]) :
           toLowerCase(custom[chainId][i].address) = toLowerCase(token.address)
    THEN custom
    ELSE [custom EXCEPT ![chainId] = Append(@, token)]

\* The loop of getTokens: each custom token is pushed unless the merged
\* list holds its address already.
RECURSIVE MergeTokens(_, _)
MergeTokens(merged, custom) ==
    IF custom = <<>> THEN merged
    ELSE MergeTokens(
             IF \E i \in 1 .. Len(merged) :
                    toLowerCase(merged[i].address)
                        = toLowerCase(Head(custom).address)
             THEN merged
             ELSE Append(merged, Head(custom)),
             Tail(custom))

\* A variant of SM_getTokens that starts from the custom tokens.
SM_getTokens_CustomFirst(custom, chainId, defaultTokens) ==
    MergeTokens(custom[chainId], defaultTokens)

\* getTokens: the default tokens, then the custom tokens of the network.
SM_getTokens(custom, chainId, defaultTokens) ==
    MergeTokens(defaultTokens, custom[chainId])

(***************************************************************************)
(* The Safe SDK, as far as the wizard uses it.                             *)
(***************************************************************************)
RECURSIVE OwnersCode(_)
OwnersCode(owners) ==
    IF owners = <<>> THEN 0
    ELSE 10 * OwnersCode(SubSeq(owners, 1, Len(owners) - 1))
             + owners[Len(owners)].v

\* protocolKit.getAddress() of a predicted Safe: a function of its setup.
PredictAddr(owners, threshold) ==
    Addr(1000 * threshold + OwnersCode(owners), "cs")

\* The setup a Safe at this address was created with.
ThresholdOf(safe) == safe.v \div 1000

\* A variant of SdkAcceptsConfig that takes any threshold.
SdkAcceptsConfig_AnyThreshold(owners, threshold) == Len(owners) > 0

\* Safe.init rejects a predicted Safe whose threshold is out of range.
SdkAcceptsConfig(owners, threshold) ==
    /\ Len(owners) > 0
    /\ threshold >= 1
    /\ threshold <= Len(owners)

\* A Safe contract exists at this address on this network.
IsDeployed(safe, chain) == [safe |-> safe.v, chain |-> chain] \in deployed

(***************************************************************************)
(* WizardOrchestrator                                                      *)
(***************************************************************************)
\* threshold || owners.length
EffectiveThreshold(threshold, owners) ==
    IF threshold.given /\ threshold.val # 0 THEN threshold.val ELSE Len(owners)

AllOwners == <<walletFile>> \o ownerAddresses

\* KeyManager.loadWallet: the address the stored private key derives is
\* compared with the stored address, letter case ignored.
AddressMismatch ==
    /\ walletFile # NoAddr
    /\ toLowerCase(Addr(walletKey, "cs")) # toLowerCase(walletFile)

\* A variant of start that does not look at the outcome of loadWallet.
start_Unchecked ==
    /\ keyLoaded' = TRUE
    /\ IF walletFile # NoAddr
       THEN /\ walletFile' = walletFile
            /\ walletKey' = walletKey
            /\ agentAddress' = Addr(walletKey, "cs")
            /\ wizardState' = IF wizardState = "INIT"
                               THEN "AGENT_WALLET_CREATED" ELSE wizardState
            /\ ret' = [op |-> "start", threw |-> FALSE, created |-> FALSE,
                        agentAddress |-> Addr(walletKey, "cs")]
       ELSE \E k \in AgentKeys :
            /\ walletFile' = Addr(k, "cs")
            /\ walletKey' = k
            /\ agentAddress' = Addr(k, "cs")
            /\ wizardState' = "AGENT_WALLET_CREATED"
            /\ ret' = [op |-> "start", threw |-> FALSE, created |-> TRUE,
                        agentAddress |-> Addr(k, "cs")]
    /\ UNCHANGED <<ownerAddresses, safeAddress, deployTxHash, proposals,
                   safes, skill, world>>

\* A variant of start that sets the wizard state whatever it was.
start_Reset ==
    /\ keyLoaded' = TRUE
    /\ IF AddressMismatch
       THEN /\ ret' = Fault("start", "address mismatch")
            /\ UNCHANGED <<walletFile, walletKey, agentAddress, wizardState>>
       ELSE IF walletFile # NoAddr
       THEN /\ walletFile' = walletFile
            /\ walletKey' = walletKey
            /\ agentAddress' = walletFile
            /\ wizardState' = "AGENT_WALLET_CREATED"
            /\ ret' = [op |-> "start", threw |-> FALSE, created |-> FALSE,
                        agentAddress |-> walletFile]
       ELSE \E k \in AgentKeys :
            /\ walletFile' = Addr(k, "cs")
            /\ walletKey' = k
            /\ agentAddress' = Addr(k, "cs")
            /\ wizardState' = "AGENT_WALLET_CREATED"
            /\ ret' = [op |-> "start", threw |-> FALSE, created |-> TRUE,
                        agentAddress |-> Addr(k, "cs")]
    /\ UNCHANGED <<ownerAddresses, safeAddress, deployTxHash, proposals,
                   safes, skill, world>>

start ==
    /\ keyLoaded' = TRUE
    /\ IF AddressMismatch
       THEN /\ ret' = Fault("start", "address mismatch")
            /\ UNCHANGED <<walletFile, walletKey, agentAddress, wizardState>>
       ELSE IF walletFile # NoAddr
       THEN /\ walletFile' = walletFile
            /\ walletKey' = walletKey
            /\ agentAddress' = walletFile
            /\ wizardState' = IF wizardState = "INIT"
                               THEN "AGENT_WALLET_CREATED" ELSE wizardState
            /\ ret' = [op |-> "start", threw |-> FALSE, created |-> FALSE,
                        agentAddress |-> walletFile]
       ELSE \E k \in AgentKeys :
            /\ walletFile' = Addr(k, "cs")
            /\ agentAddress' = Addr(k, "cs")
            /\ walletKey' = k
            /\ wizardState' = "AGENT_WALLET_CREATED"
            /\ ret' = [op |-> "start", threw |-> FALSE, created |-> TRUE,
                        agentAddress |-> Addr(k, "cs")]
    /\ UNCHANGED <<ownerAddresses, safeAddress, deployTxHash, proposals,
                   safes, skill, world>>

\* A variant of FundsOk that asks for more than the minimum.
FundsOk_Strict(balanceWei, minWei) == balanceWei > minWei

\* ok = balanceWei >= minWei
FundsOk(balanceWei, minWei) == balanceWei >= minWei

\* A variant of checkAgentFunds that sets the wizard state before it reads
\* the balance.
checkAgentFunds_StateFirst ==
    IF walletFile = NoAddr
    THEN /\ ret' = Fault("checkAgentFunds", "No wallet found")
         /\ UNCHANGED <<walletFile, keyLoaded, store, skill, world>>
    ELSE IF AddressMismatch
    THEN /\ ret' = Fault("checkAgentFunds", "address mismatch")
         /\ keyLoaded' = TRUE
         /\ UNCHANGED <<walletFile, store, skill, world>>
    ELSE /\ keyLoaded' = TRUE
         /\ UNCHANGED <<walletFile, agentAddress, ownerAddresses, safeAddress,
                        deployTxHash, proposals, safes, skill, world>>
         /\ \/ /\ ret' = Fault("checkAgentFunds", "rpc")
               /\ wizardState' = "AWAIT_USER_FUNDS_CONFIRMATION"
            \/ \E balanceWei \in 0 .. 2, minWei \in 1 .. 2 :
                 LET ok == FundsOk(balanceWei, minWei) IN
                 /\ wizardState' = IF ok THEN "AWAIT_OWNER_ADDRESS"
                                    ELSE "AWAIT_USER_FUNDS_CONFIRMATION"
                 /\ ret' = [op |-> "checkAgentFunds", threw |-> FALSE,
                             ok |-> ok, balanceWei |-> balanceWei,
                             minRequired |-> minWei]

checkAgentFunds ==
    IF walletFile = NoAddr
    THEN /\ ret' = Fault("checkAgentFunds", "No wallet found")
         /\ UNCHANGED <<walletFile, keyLoaded, store, skill, world>>
    ELSE IF AddressMismatch
    THEN /\ ret' = Fault("checkAgentFunds", "address mismatch")
         /\ keyLoaded' = TRUE
         /\ UNCHANGED <<walletFile, store, skill, world>>
    ELSE /\ keyLoaded' = TRUE
         /\ UNCHANGED <<walletFile, agentAddress, ownerAddresses, safeAddress,
                        deployTxHash, proposals, safes, skill, world>>
         /\ \/ /\ ret' = Fault("checkAgentFunds", "rpc")
               /\ UNCHANGED wizardState
            \/ \E balanceWei \in 0 .. 2, minWei \in 1 .. 2 :
                 LET ok == FundsOk(balanceWei, minWei) IN
                 /\ wizardState' = IF ok THEN "AWAIT_OWNER_ADDRESS"
                                    ELSE "AWAIT_USER_FUNDS_CONFIRMATION"
                 /\ ret' = [op |-> "checkAgentFunds", threw |-> FALSE,
                             ok |-> ok, balanceWei |-> balanceWei,
                             minRequired |-> minWei]

\* A variant of IsAgentAddress that lower-cases one side only.
IsAgentAddress_OneSided(checksummedAddress) ==
    toLowerCase(checksummedAddress) = walletFile

\* The comparison that keeps the agent out of the owner list.
IsAgentAddress(checksummedAddress) ==
    toLowerCase(checksummedAddress) = toLowerCase(walletFile)

addOwnerAddress(ownerAddress) ==
    IF walletFile = NoAddr
    THEN /\ ret' = Fault("addOwnerAddress", "No wallet found")
         /\ UNCHANGED <<walletFile, keyLoaded, store, skill, world>>
    ELSE IF AddressMismatch
    THEN /\ ret' = Fault("addOwnerAddress", "address mismatch")
         /\ keyLoaded' = TRUE
         /\ UNCHANGED <<walletFile, store, skill, world>>
    ELSE /\ keyLoaded' = TRUE
         /\ UNCHANGED <<walletFile, agentAddress, safeAddress, deployTxHash,
                        proposals, safes, skill, world>>
         /\ IF ~isAddress(ownerAddress)
            THEN /\ ret' = Fault("addOwnerAddress", "Invalid address format")
                 /\ UNCHANGED <<wizardState, ownerAddresses>>
            ELSE IF IsAgentAddress(getAddress(ownerAddress))
            THEN /\ ret' = Fault("addOwnerAddress", "same as agent")
                 /\ UNCHANGED <<wizardState, ownerAddresses>>
            ELSE /\ ownerAddresses' =
                        SM_addOwnerAddress(ownerAddresses,
                                           getAddress(ownerAddress))
                 /\ wizardState' = "READY_TO_DEPLOY_SAFE"
                 /\ ret' = [op |-> "addOwnerAddress", threw |-> FALSE,
                             ownerAddress |-> getAddress(ownerAddress)]

getDeployOverview(threshold) ==
    /\ UNCHANGED <<walletFile, store, skill, world>>
    /\ IF walletFile = NoAddr
       THEN /\ ret' = Fault("getDeployOverview", "No wallet found")
            /\ UNCHANGED keyLoaded
       ELSE /\ keyLoaded' = TRUE
            /\ IF AddressMismatch
               THEN ret' = Fault("getDeployOverview", "address mismatch")
               ELSE IF Len(ownerAddresses) = 0
               THEN ret' = Fault("getDeployOverview", "No owner addresses set")
               ELSE ret' = [op |-> "getDeployOverview", threw |-> FALSE,
                            owners |-> AllOwners,
                            threshold |->
                                EffectiveThreshold(threshold, AllOwners)]

\* A variant of CanDeployIn that lets deploySafe run in every state.
CanDeployIn_AnyState(state) == TRUE

\* deploySafe throws unless state.wizardState is READY_TO_DEPLOY_SAFE.
CanDeployIn(state) == state = "READY_TO_DEPLOY_SAFE"

deploySafe(threshold) ==
    IF walletFile = NoAddr
    THEN /\ ret' = Fault("deploySafe", "No wallet found")
         /\ UNCHANGED <<walletFile, keyLoaded, store, skill, world>>
    ELSE IF AddressMismatch
    THEN /\ ret' = Fault("deploySafe", "address mismatch")
         /\ keyLoaded' = TRUE
         /\ UNCHANGED <<walletFile, store, skill, world>>
    ELSE /\ keyLoaded' = TRUE
         /\ UNCHANGED <<walletFile, agentAddress, ownerAddresses, proposals,
                        skill, remote, onchain, inflight>>
         /\ IF ~CanDeployIn(wizardState)
            THEN /\ ret' = Fault("deploySafe", "Cannot deploy in current state")
                 /\ UNCHANGED <<wizardState, safeAddress, deployTxHash, safes,
                                deployed>>
            ELSE IF Len(ownerAddresses) = 0
            THEN /\ ret' = Fault("deploySafe", "No owner addresses set")
                 /\ UNCHANGED <<wizardState, safeAddress, deployTxHash, safes,
                                deployed>>
            ELSE LET owners == AllOwners
                     effectiveThreshold == EffectiveThreshold(threshold, owners)
                     predicted == PredictAddr(owners, effectiveThreshold)
                     txHash == [kind |-> "deploy", safe |-> predicted.v,
                                chain |-> config, ref |-> 0]
                 IN  IF ~SdkAcceptsConfig(owners, effectiveThreshold)
                     THEN /\ ret' = Fault("deploySafe", "sdk: threshold")
                          /\ UNCHANGED <<wizardState, safeAddress,
                                         deployTxHash, safes, deployed>>
                     ELSE \/ /\ ret' = Fault("deploySafe", "deployment failed")
                             /\ UNCHANGED <<wizardState, safeAddress,
                                            deployTxHash, safes, deployed>>
                          \/ /\ Len(safes) < MaxSafes
                             /\ ~IsDeployed(predicted, config)
                             /\ deployed' = deployed \cup
                                    {[safe |-> predicted.v, chain |-> config]}
                             /\ safeAddress' = predicted
                             /\ deployTxHash' = txHash
                             /\ safes' = SM_recordSafe(safes,
                                    [address |-> predicted, chainId |-> config,
                                     owners |-> owners,
                                     threshold |-> effectiveThreshold])
                             /\ wizardState' = "READY"
                             /\ ret' = [op |-> "deploySafe", threw |-> FALSE,
                                         safeAddress |-> predicted,
                                         deployTxHash |-> txHash]

(***************************************************************************)
(* SafeWalletSkill.ensureOperations                                        *)
(***************************************************************************)
EnsureOperationsFault ==
    IF operations # NoOps THEN "none"
    ELSE IF safeAddress = NoAddr THEN "Safe not deployed yet"
    ELSE IF ~keyLoaded THEN "No wallet loaded"
    ELSE "none"

EnsureOperations ==
    IF operations # NoOps THEN operations
    ELSE [safe |-> safeAddress, chain |-> config]

(***************************************************************************)
(* Contracts and assets of the active network (config.ts), amounts.        *)
(***************************************************************************)
USDC == Addr(50, "cs")
WETH == Addr(51, "cs")
SwapRouter == Addr(60, "cs")
AavePool == Addr(61, "cs")

\* config.tokens
DefaultTokens ==
    <<[symbol |-> "USDC", address |-> USDC, decimals |-> 6],
      [symbol |-> "WETH", address |-> WETH, decimals |-> 18]>>

\* A token contract that no default list names, and the decimals() it
\* answers.
Unlisted == Addr(70, "cs")
UnlistedDecimals == 6

\* The texts a caller may pass for an asset besides the symbols, read as
\* address strings: USDC's address in lower case, the unlisted contract's
\* address, a text with the 0x prefix that is no address, and any other
\* text (an unknown symbol), which is no address either.
TextAddr(text) ==
    CASE text = "0xusdc" -> toLowerCase(USDC)
      [] text = "0xT70" -> Unlisted
      [] text = "0xzz" -> Addr(71, "bad")
      [] OTHER -> Addr(72, "bad")

\* tokenSymbolOrAddress.startsWith('0x')
startsWith0x(text) == text \in {"0xusdc", "0xT70", "0xzz"}

\* The merged token list the operations object works with: getTokens for
\* its network, read at construction and again after addToken.
Tokens == SM_getTokens(customTokens, EnsureOperations.chain, DefaultTokens)

\* tokens.find(t => t.symbol.toLowerCase() === text.toLowerCase() ||
\*                  t.address.toLowerCase() === text.toLowerCase())
\* as an index, 0 when nothing is found.
FindToken(tokens, text) ==
    LET hits == {i \in 1 .. Len(tokens) :
                    \/ tokens[i].symbol = text
                    \/ toLowerCase(tokens[i].address)
                           = toLowerCase(TextAddr(text))}
    IN  IF hits = {} THEN 0
        ELSE CHOOSE i \in hits : \A j \in hits : i <= j

\* The token a service makes up for a text its list does not hold: the
\* text itself as the address, 18 decimals.
AssumedToken(text) ==
    [address |-> TextAddr(text), decimals |-> 18, symbol |-> "TOKEN"]

\* The token resolution inside proposeSendERC20.
Transfer_resolveToken(text) ==
    IF FindToken(Tokens, text) # 0 THEN Tokens[FindToken(Tokens, text)]
    ELSE AssumedToken(text)

\* parseUnits(amount, decimals): the integer amount * 10^decimals, kept as
\* the pair so that 18 decimals stay within the integers of the checker.
parseUnits(amount, decimals) == [units |-> amount, decimals |-> decimals]
parseEther(amount) == parseUnits(amount, 18)
Zero == parseUnits(0, 0)
\* A raw on-chain integer.
Raw(n) == parseUnits(n, 0)

Call(to, value, fn, args) ==
    [to |-> to, value |-> value, fn |-> fn, args |-> args]

(***************************************************************************)
(* UniswapService                                                          *)
(***************************************************************************)
isNativeETH(token) == token = "ETH"

Uni_resolveToken(token) ==
    IF token = "ETH" THEN [address |-> WETH, decimals |-> 18, symbol |-> "ETH"]
    ELSE IF FindToken(Tokens, token) # 0
    THEN Tokens[FindToken(Tokens, token)]
    ELSE AssumedToken(token)

\* Both tokens of a swap resolve to address strings the factory and quoter
\* calls can encode; readContract throws on any other.
Uni_encodable(fromToken, toToken) ==
    /\ isAddress(Uni_resolveToken(fromToken).address)
    /\ isAddress(Uni_resolveToken(toToken).address)

\* What the factory's getPool call may do: answer a pool address, answer the
\* zero address, or fail (the RPC endpoint is unreachable).
PoolAnswers == {"pool", "zero", "rpc"}
NoPool == "null"

\* A variant of getPool that takes every answer for a pool.
getPool_AnyAnswer(lookup) == "pool"

\* getPool: the zero address and a failed call both give null.
getPool(lookup) == IF lookup = "pool" THEN "pool" ELSE NoPool

\* The fault getQuote throws when it returns no quote: no pool, or the
\* quoter's simulation failed.
getQuoteFault(o, lookup) ==
    [op |-> o, threw |-> TRUE, lookup |-> lookup,
     msg |-> IF getPool(lookup) = NoPool THEN "No Uniswap pool exists"
             ELSE "Failed to get quote"]

\* (100 - defaultSlippagePercent) * 100, floored
SlippageMultiplier == 9950

\* A variant of AmountOutMin that rounds up.
AmountOutMin_RoundedUp(amountOut) ==
    (amountOut * SlippageMultiplier + 9999) \div 10000

AmountOutMin(amountOut) == (amountOut * SlippageMultiplier) \div 10000

\* getQuote, given what the quoter contract answered.
getQuote(fromToken, toToken, amount, amountOut) ==
    LET tokenIn == Uni_resolveToken(fromToken)
        tokenOut == Uni_resolveToken(toToken)
    IN  [fromToken |-> [symbol |-> tokenIn.symbol, address |-> tokenIn.address,
                        amountRaw |-> parseUnits(amount, tokenIn.decimals)],
         toToken |-> [symbol |-> tokenOut.symbol, address |-> tokenOut.address,
                      amountRaw |-> Raw(amountOut),
                      amountMinRaw |-> Raw(AmountOutMin(amountOut))]]

buildSwapCalldata(tokenIn, tokenOut, amountIn, amountOutMinimum, recipient) ==
    [fn |-> "exactInputSingle",
     args |-> <<tokenIn, tokenOut, recipient, amountIn, amountOutMinimum>>]

\* The largest amount an allowance can hold.
MaxUint256 == [units |-> -1, decimals |-> 0]

\* A variant of buildApproveCalldata that approves an unlimited allowance
\* instead of the amount of the swap.
buildApproveCalldata_Unlimited(spender, amount) ==
    [fn |-> "approve", args |-> <<spender, MaxUint256>>]

buildApproveCalldata(spender, amount) ==
    [fn |-> "approve", args |-> <<spender, amount>>]

(***************************************************************************)
(* AaveService                                                             *)
(***************************************************************************)
\* AaveService.resolveToken when it returns: a token of the list, or the
\* text as the address with the decimals read from that contract.
Aave_resolveToken(token) ==
    IF FindToken(Tokens, token) # 0 THEN Tokens[FindToken(Tokens, token)]
    ELSE [address |-> TextAddr(token), decimals |-> UnlistedDecimals,
          symbol |-> "TOKEN"]

\* AaveService.resolveToken can return for this text: it is in the list,
\* or it is an address whose decimals() can be read.
Aave_resolves(token) ==
    \/ FindToken(Tokens, token) # 0
    \/ startsWith0x(token) /\ isAddress(TextAddr(token))

\* What AaveService.resolveToken may throw for this text: nothing for a
\* token of the list; for a text without the 0x prefix the allowlist fault;
\* otherwise the fault of a decimals() call that failed.
Aave_resolveFaults(token) ==
    IF FindToken(Tokens, token) # 0 THEN {}
    ELSE IF ~startsWith0x(token)
    THEN {"not found in allowlist and is not a valid address"}
    ELSE {"Could not resolve decimals"}

Aave_parseAmount(amount, token) ==
    parseUnits(amount, Aave_resolveToken(token).decimals)

Aave_buildApproveCalldata(spender, amount) ==
    [fn |-> "approve", args |-> <<spender, amount>>]

buildSupplyCalldata(asset, amount, onBehalfOf) ==
    [fn |-> "supply", args |-> <<asset, amount, onBehalfOf>>]

buildWithdrawCalldata(asset, amount, to) ==
    [fn |-> "withdraw", args |-> <<asset, amount, to>>]

(***************************************************************************)
(* SafeOperations: the calls each propose operation hands to the SDK.      *)
(***************************************************************************)
\* What a caller may ask for.
Intents ==
    {[kind |-> "sendETH", token |-> "ETH", other |-> "", amount |-> 1],
     [kind |-> "sendERC20", token |-> "USDC", other |-> "", amount |-> 1],
     [kind |-> "swap", token |-> "ETH", other |-> "USDC", amount |-> 1],
     [kind |-> "swap", token |-> "USDC", other |-> "WETH", amount |-> 1],
     [kind |-> "wrapETH", token |-> "ETH", other |-> "", amount |-> 1],
     [kind |-> "unwrapWETH", token |-> "WETH", other |-> "", amount |-> 1],
     [kind |-> "aaveDeposit", token |-> "USDC", other |-> "", amount |-> 1],
     [kind |-> "aaveWithdraw", token |-> "USDC", other |-> "", amount |-> 1]}

\* Requests that name an asset by a text other than a listed symbol: the
\* address of a listed token, the address of an unlisted contract, a text
\* that is neither a listed symbol nor an address.
AssetIntents ==
    {[kind |-> "sendERC20", token |-> "0xusdc", other |-> "", amount |-> 1],
     [kind |-> "sendERC20", token |-> "0xT70", other |-> "", amount |-> 1],
     [kind |-> "sendERC20", token |-> "DOGE", other |-> "", amount |-> 1],
     [kind |-> "swap", token |-> "0xT70", other |-> "USDC", amount |-> 1],
     [kind |-> "swap", token |-> "DOGE", other |-> "USDC", amount |-> 1],
     [kind |-> "aaveDeposit", token |-> "0xT70", other |-> "", amount |-> 1],
     [kind |-> "aaveDeposit", token |-> "DOGE", other |-> "", amount |-> 1],
     [kind |-> "aaveDeposit", token |-> "0xzz", other |-> "", amount |-> 1]}

\* The swaps among them.
SwapIntents == {i \in Intents : i.kind = "swap"}

\* The intents the lifecycle is followed for.
LedgerIntents == {i \in Intents : i.kind \in {"sendETH", "aaveDeposit"}}

\* The recipient of the plain transfers.
Recipient == Addr(2, "cs")

\* What the quoter contract may answer.
QuoteAnswers == {0, 1, 201}
QuoteAnswersFor(intent) == IF intent.kind = "swap" THEN QuoteAnswers ELSE {0}

SendETHCalls(to, amountEth) ==
    <<Call(to, parseEther(amountEth), "0x", <<>>)>>

SendERC20Calls(token, to, amount) ==
    LET t == Transfer_resolveToken(token) IN
    <<Call(t.address, Zero, "transfer",
           <<to, parseUnits(amount, t.decimals)>>)>>

SwapCalls(fromToken, toToken, amount, amountOut, safe) ==
    LET quote == getQuote(fromToken, toToken, amount, amountOut)
        swapCalldata ==
            buildSwapCalldata(quote.fromToken.address, quote.toToken.address,
                              quote.fromToken.amountRaw,
                              quote.toToken.amountMinRaw, safe)
        approveCalldata ==
            buildApproveCalldata(SwapRouter, quote.fromToken.amountRaw)
    IN  IF isNativeETH(fromToken)
        THEN <<Call(SwapRouter, quote.fromToken.amountRaw,
                    swapCalldata.fn, swapCalldata.args)>>
        ELSE <<Call(quote.fromToken.address, Zero,
                    approveCalldata.fn, approveCalldata.args),
               Call(SwapRouter, Zero, swapCalldata.fn, swapCalldata.args)>>

WrapETHCalls(amountEth) ==
    <<Call(WETH, parseEther(amountEth), "deposit", <<>>)>>

UnwrapWETHCalls(amountWeth) ==
    <<Call(WETH, Zero, "withdraw", <<parseEther(amountWeth)>>)>>

AaveDepositCalls(token, amount, safe) ==
    LET tokenInfo == Aave_resolveToken(token)
        amountRaw == Aave_parseAmount(amount, token)
        approveCalldata == Aave_buildApproveCalldata(AavePool, amountRaw)
        supplyCalldata == buildSupplyCalldata(tokenInfo.address, amountRaw, safe)
    IN  <<Call(tokenInfo.address, Zero,
               approveCalldata.fn, approveCalldata.args),
          Call(AavePool, Zero, supplyCalldata.fn, supplyCalldata.args)>>

AaveWithdrawCalls(token, amount, safe) ==
    LET tokenInfo == Aave_resolveToken(token)
        amountRaw == Aave_parseAmount(amount, token)
        withdrawCalldata ==
            buildWithdrawCalldata(tokenInfo.address, amountRaw, safe)
    IN  <<Call(AavePool, Zero, withdrawCalldata.fn, withdrawCalldata.args)>>

CallsOf(intent, amountOut, safe) ==
    CASE intent.kind = "sendETH" -> SendETHCalls(Recipient, intent.amount)
      [] intent.kind = "sendERC20" ->
             SendERC20Calls(intent.token, Recipient, intent.amount)
      [] intent.kind = "swap" ->
             SwapCalls(intent.token, intent.other, intent.amount, amountOut,
                       safe)
      [] intent.kind = "wrapETH" -> WrapETHCalls(intent.amount)
      [] intent.kind = "unwrapWETH" -> UnwrapWETHCalls(intent.amount)
      [] intent.kind = "aaveDeposit" ->
             AaveDepositCalls(intent.token, intent.amount, safe)
      [] OTHER -> AaveWithdrawCalls(intent.token, intent.amount, safe)

(***************************************************************************)
(* SafeService and the Safe SDK: actions, hashes, signatures.              *)
(***************************************************************************)
\* The nonce the SDK reads from the Safe: the executions it has made.
NonceOf(safe, chain) ==
    Cardinality({h \in onchain :
                    h.digest.safe = safe /\ h.digest.chain = chain})

\* protocolKit.createTransaction({ transactions })
createTransaction(safe, chain, calls) ==
    [safe |-> safe, chain |-> chain, nonce |-> NonceOf(safe, chain),
     calls |-> calls]

\* protocolKit.getTransactionHash: equal exactly for equal transactions.
getTransactionHash(safeTx) == [digest |-> safeTx]

\* protocolKit.signHash with the agent key / a signature by any owner.
SignatureOf(signer, safeTxHash) == [by |-> signer.v, over |-> safeTxHash]

\* A variant of signTransactionHash that signs before the action is
\* assembled: the signature covers the hash of the empty action.
signTransactionHash_Early(safeTxHash) ==
    SignatureOf(walletFile, [digest |-> createTransaction(NoAddr, 0, <<>>)])
signTransactionHash(safeTxHash) == SignatureOf(walletFile, safeTxHash)

Confirmation(owner, safeTxHash) ==
    [owner |-> owner, signature |-> SignatureOf(owner, safeTxHash)]

\* A variant of OwnerBeforeOrEqual with the two sides of the comparison
\* exchanged.
OwnerBeforeOrEqual_Exchanged(a, b) ==
    toLowerCase(b.owner).v <= toLowerCase(a.owner).v

\* a.owner.toLowerCase().localeCompare(b.owner.toLowerCase()) <= 0
OwnerBeforeOrEqual(a, b) == toLowerCase(a.owner).v <= toLowerCase(b.owner).v

\* Stable insertion of c into a list sorted by owner.
RECURSIVE InsertSorted(_, _)
InsertSorted(sorted, c) ==
    IF sorted = <<>> THEN <<c>>
    ELSE IF OwnerBeforeOrEqual(sorted[Len(sorted)], c)
    THEN Append(sorted, c)
    ELSE Append(InsertSorted(SubSeq(sorted, 1, Len(sorted) - 1), c),
                sorted[Len(sorted)])

\* [...txResponse.confirmations].sort(by lower-cased owner)
RECURSIVE SortConfirmations(_)
SortConfirmations(confirmations) ==
    IF confirmations = <<>> THEN <<>>
    ELSE InsertSorted(
             SortConfirmations(
                 SubSeq(confirmations, 1, Len(confirmations) - 1)),
             confirmations[Len(confirmations)])

\* The signatures executeTransactionFromService adds, in the order added.
SignaturesAdded(txResponse) ==
    LET sortedConfirmations == SortConfirmations(txResponse.confirmations) IN
    [i \in 1 .. Len(sortedConfirmations) |->
        [signer |-> sortedConfirmations[i].owner,
         data |-> sortedConfirmations[i].signature]]

\* The chain transaction that executed a Safe transaction: the Safe
\* executes one transaction per nonce.
ExecTx(safeTxHash) ==
    [kind |-> "exec", safe |-> safeTxHash.digest.safe.v,
     chain |-> safeTxHash.digest.chain, ref |-> safeTxHash.digest.nonce + 1]

\* The owners a Safe at this address was created with.
OwnerValuesOf(safe) ==
    LET code == safe.v % 1000 IN
    {code \div 100, (code \div 10) % 10, code % 10} \ {0}

\* The Safe contract executes a transaction once, at its nonce, with at
\* least threshold signatures over its hash, by owners in ascending order
\* of address.
ChainWouldExecute(safeTxHash, signatures) ==
    /\ safeTxHash \notin onchain
    /\ safeTxHash.digest.nonce
           = NonceOf(safeTxHash.digest.safe, safeTxHash.digest.chain)
    /\ Len(signatures) >= ThresholdOf(safeTxHash.digest.safe)
    /\ \A i \in 1 .. Len(signatures) :
           /\ signatures[i].data = SignatureOf(signatures[i].signer, safeTxHash)
           /\ signatures[i].signer.v \in OwnerValuesOf(safeTxHash.digest.safe)
           /\ i > 1 => signatures[i - 1].signer.v < signatures[i].signer.v

(***************************************************************************)
(* StateManager: the proposal ledger.                                      *)
(***************************************************************************)
SM_addProposal(ledger, proposal) ==
    [h \in DOMAIN ledger \cup {proposal.safeTxHash} |->
        IF h = proposal.safeTxHash THEN proposal ELSE ledger[h]]

\* A variant of SM_updateProposalStatus that makes an entry for a hash the
\* ledger does not hold.
SM_updateProposalStatus_Upsert(ledger, safeTxHash, status, executedTxHash) ==
    [h \in DOMAIN ledger \cup {safeTxHash} |->
        IF h # safeTxHash THEN ledger[h]
        ELSE IF h \in DOMAIN ledger
        THEN [ledger[h] EXCEPT
                 !.status = status,
                 !.executedTxHash =
                     IF executedTxHash # NoTx THEN executedTxHash ELSE @]
        ELSE [safeTxHash |-> safeTxHash, status |-> status,
              executedTxHash |-> executedTxHash]]

SM_updateProposalStatus(ledger, safeTxHash, status, executedTxHash) ==
    IF safeTxHash \in DOMAIN ledger
    THEN [ledger EXCEPT ![safeTxHash] =
             [@ EXCEPT !.status = status,
                       !.executedTxHash =
                           IF executedTxHash # NoTx THEN executedTxHash ELSE @]]
    ELSE ledger

(***************************************************************************)
(* The transaction service (SafeTxServiceClient / api-kit).                *)
(***************************************************************************)
ServiceHas(safeTxHash, chain) ==
    safeTxHash \in DOMAIN remote /\ safeTxHash.digest.chain = chain

HasConfirmed(record, owner) ==
    \E i \in 1 .. Len(record.confirmations) :
        record.confirmations[i].owner.v = owner.v

\* The service after it accepted proposeTransaction: it files the
\* transaction data under the hash, with the sender's signature as the
\* first confirmation.
ServiceAfterPropose(safeTx, safeTxHash, sender, signature) ==
    IF safeTxHash \in DOMAIN remote
    THEN [remote EXCEPT ![safeTxHash].confirmations =
             IF HasConfirmed(remote[safeTxHash], sender) THEN @
             ELSE Append(@, [owner |-> sender, signature |-> signature])]
    ELSE [h \in DOMAIN remote \cup {safeTxHash} |->
             IF h = safeTxHash
             THEN [safeTx |-> safeTx,
                   confirmations |->
                       <<[owner |-> sender, signature |-> signature]>>,
                   confirmationsRequired |-> ThresholdOf(safeTx.safe),
                   isExecuted |-> FALSE,
                   transactionHash |-> NoTx]
             ELSE remote[h]]

\* The service after it accepted confirmTransaction: one confirmation per
\* owner.
ServiceAfterConfirm(safeTxHash, owner, signature) ==
    [remote EXCEPT ![safeTxHash].confirmations =
        IF HasConfirmed(remote[safeTxHash], owner) THEN @
        ELSE Append(@, [owner |-> owner, signature |-> signature])]

\* getTransactionDetails
getTransactionDetails(safeTxHash) == remote[safeTxHash]

(***************************************************************************)
(* SafeOperations: propose, check, execute.                                *)
(***************************************************************************)
\* A variant of ProposalOf that saves the Proposal as a draft.
ProposalOf_Draft(intent, safeTxHash, calls) ==
    [safeTxHash |-> safeTxHash, status |-> "DRAFT",
     description |-> intent.kind, to |-> calls[Len(calls)].to,
     value |-> calls[Len(calls)].value, executedTxHash |-> NoTx]

\* The Proposal a propose operation saves.
ProposalOf(intent, safeTxHash, calls) ==
    [safeTxHash |-> safeTxHash, status |-> "PROPOSED",
     description |-> intent.kind, to |-> calls[Len(calls)].to,
     value |-> calls[Len(calls)].value, executedTxHash |-> NoTx]

\* What a propose operation returns besides the hash: proposeSwap returns
\* its quote.
QuoteOf(intent, amountOut) ==
    IF intent.kind = "swap"
    THEN [lookup |-> "pool", amountOut |-> amountOut,
          quote |-> getQuote(intent.token, intent.other, intent.amount,
                             amountOut)]
    ELSE [h \in {} |-> 0]

\* The answers of the factory's getPool call for a swap: with a token that
\* is no address the call cannot be encoded and fails.
PoolAnswersFor(intent) ==
    IF Uni_encodable(intent.token, intent.other) THEN PoolAnswers
    ELSE {"rpc"}

\* What a propose operation may throw between init and the submission
\* because of the asset it was given: the faults of AaveService's
\* resolveToken, and for a plain transfer the SDK's fault on a transaction
\* whose destination is no address.
AssetFaults(intent) ==
    CASE intent.kind \in {"aaveDeposit", "aaveWithdraw"} ->
             Aave_resolveFaults(intent.token)
      [] intent.kind = "sendERC20" ->
             IF isAddress(Transfer_resolveToken(intent.token).address)
             THEN {} ELSE {"sdk: invalid address"}
      [] OTHER -> {}

\* The operation gets past the resolution of its asset and the building of
\* its transaction.
AssetBuilds(intent) ==
    CASE intent.kind \in {"aaveDeposit", "aaveWithdraw"} ->
             Aave_resolves(intent.token)
      [] intent.kind = "sendERC20" ->
             isAddress(Transfer_resolveToken(intent.token).address)
      [] intent.kind = "swap" -> Uni_encodable(intent.token, intent.other)
      [] OTHER -> TRUE

propose(intent) ==
    /\ inflight = NoCall
    /\ UNCHANGED <<walletFile, keyLoaded, wizardState, agentAddress,
                   ownerAddresses, safeAddress, deployTxHash, safes, config,
                   onchain, deployed, inflight>>
    /\ IF EnsureOperationsFault # "none"
       THEN /\ ret' = Fault("propose", EnsureOperationsFault)
            /\ UNCHANGED <<operations, proposals, remote>>
       ELSE /\ operations' = EnsureOperations
            /\ \/ /\ ret' = Fault("propose", "init")
                  /\ UNCHANGED <<proposals, remote>>
               \/ /\ intent.kind = "swap"
                  /\ IsDeployed(EnsureOperations.safe, EnsureOperations.chain)
                  /\ \E lookup \in PoolAnswersFor(intent) :
                         ret' = getQuoteFault("propose", lookup)
                  /\ UNCHANGED <<proposals, remote>>
               \/ /\ IsDeployed(EnsureOperations.safe, EnsureOperations.chain)
                  /\ \E msg \in AssetFaults(intent) :
                         ret' = Fault("propose", msg)
                  /\ UNCHANGED <<proposals, remote>>
               \/ \E amountOut \in QuoteAnswersFor(intent) :
                    LET ops == EnsureOperations
                        calls == CallsOf(intent, amountOut, ops.safe)
                        safeTx == createTransaction(ops.safe, ops.chain, calls)
                        safeTxHash == getTransactionHash(safeTx)
                        signature == signTransactionHash(safeTxHash)
                    IN  /\ IsDeployed(ops.safe, ops.chain)
                        /\ AssetBuilds(intent)
                        /\ \/ /\ ret' = Fault("propose", "service")
                              /\ UNCHANGED <<proposals, remote>>
                           \/ /\ \/ safeTxHash \in DOMAIN remote
                                 \/ Cardinality(DOMAIN remote) < MaxProposals
                              /\ remote' = ServiceAfterPropose(safeTx,
                                               safeTxHash, walletFile,
                                               signature)
                              /\ proposals' =
                                     SM_addProposal(proposals,
                                         ProposalOf(intent, safeTxHash, calls))
                              /\ ret' = [op |-> "propose", threw |-> FALSE,
                                          intent |-> intent,
                                          safeTxHash |-> safeTxHash,
                                          safeTx |-> safeTx,
                                          senderSignature |-> signature]
                                         @@ QuoteOf(intent, amountOut)

\* getSwapQuote: the quote alone, nothing built and nothing submitted.
getSwapQuote(intent) ==
    /\ inflight = NoCall
    /\ UNCHANGED <<walletFile, keyLoaded, store, config, world>>
    /\ IF EnsureOperationsFault # "none"
       THEN /\ ret' = Fault("getSwapQuote", EnsureOperationsFault)
            /\ UNCHANGED operations
       ELSE /\ operations' = EnsureOperations
            /\ \/ \E lookup \in PoolAnswersFor(intent) :
                     ret' = getQuoteFault("getSwapQuote", lookup)
               \/ /\ Uni_encodable(intent.token, intent.other)
                  /\ \E amountOut \in QuoteAnswers :
                        ret' = [op |-> "getSwapQuote", threw |-> FALSE]
                                   @@ QuoteOf(intent, amountOut)

\* Tokens a caller may add: a token at the unlisted contract's address, the
\* same address in lower case under another symbol, and a token at the
\* address of the default USDC.
TokenInputs ==
    {[symbol |-> "TKN", address |-> Unlisted, decimals |-> UnlistedDecimals],
     [symbol |-> "TKN2", address |-> toLowerCase(Unlisted), decimals |-> 8],
     [symbol |-> "FAKE", address |-> toLowerCase(USDC), decimals |-> 18]}

\* addToken: the token joins the custom tokens of the network of the
\* operations object, and the services get the merged list again.
addToken(token) ==
    /\ inflight = NoCall
    /\ UNCHANGED <<walletFile, keyLoaded, store, config, world>>
    /\ IF EnsureOperationsFault # "none"
       THEN /\ ret' = Fault("addToken", EnsureOperationsFault)
            /\ UNCHANGED <<operations, customTokens>>
       ELSE /\ operations' = EnsureOperations
            /\ customTokens' =
                   SM_addCustomToken(customTokens, EnsureOperations.chain,
                                     token)
            /\ ret' = [op |-> "addToken", threw |-> FALSE, token |-> token,
                        chainId |-> EnsureOperations.chain]

\* A variant of readyToExecute that asks for more confirmations than the
\* Safe requires.
readyToExecute_Strict(details) ==
    /\ Len(details.confirmations) > details.confirmationsRequired
    /\ ~details.isExecuted

readyToExecute(details) ==
    /\ Len(details.confirmations) >= details.confirmationsRequired
    /\ ~details.isExecuted

\* A variant of confirmedByOwner that compares with the threshold of the
\* transaction.
confirmedByOwner_ByThreshold(confirmationsCount, confirmationsRequired) ==
    confirmationsCount >= confirmationsRequired

\* confirmedByOwner: confirmationsCount >= 2; the threshold is not read.
confirmedByOwner(confirmationsCount, confirmationsRequired) ==
    confirmationsCount >= 2

\* The ProposalStatusResult computed from the fetched details.
StatusResult(safeTxHash, details) ==
    LET confirmationsCount == Len(details.confirmations) IN
    [op |-> "checkProposalStatus", threw |-> FALSE,
     safeTxHash |-> safeTxHash,
     confirmations |-> details.confirmations,
     confirmationsRequired |-> details.confirmationsRequired,
     confirmedByOwner |->
         confirmedByOwner(confirmationsCount, details.confirmationsRequired),
     readyToExecute |-> readyToExecute(details),
     isExecuted |-> details.isExecuted]

\* A variant of ReturnsWithoutExecuting that only looks at isExecuted.
ReturnsWithoutExecuting_ExecutedOnly(status) == status.isExecuted

\* The two early returns of executeIfReady.
ReturnsWithoutExecuting(status) ==
    status.isExecuted \/ ~status.readyToExecute

\* A variant of LedgerAfterCheck that makes its two updates in the other
\* order: EXECUTED first, OWNER_CONFIRMED last.
LedgerAfterCheck_ConfirmedLast(ledger, safeTxHash, details) ==
    LET executed ==
            IF details.isExecuted
            THEN SM_updateProposalStatus(ledger, safeTxHash, "EXECUTED",
                                         details.transactionHash)
            ELSE ledger
    IN  IF Len(details.confirmations) >= details.confirmationsRequired
        THEN SM_updateProposalStatus(executed, safeTxHash,
                                     "OWNER_CONFIRMED", NoTx)
        ELSE executed

\* The ledger after checkProposalStatus synchronised it.
LedgerAfterCheck(ledger, safeTxHash, details) ==
    LET confirmed ==
            IF Len(details.confirmations) >= details.confirmationsRequired
            THEN SM_updateProposalStatus(ledger, safeTxHash,
                                         "OWNER_CONFIRMED", NoTx)
            ELSE ledger
    IN  IF details.isExecuted
        THEN SM_updateProposalStatus(confirmed, safeTxHash, "EXECUTED",
                                     details.transactionHash)
        ELSE confirmed

KnownHashes == DOMAIN remote \cup DOMAIN proposals

checkProposalStatus(safeTxHash) ==
    /\ inflight = NoCall
    /\ UNCHANGED <<walletFile, keyLoaded, wizardState, agentAddress,
                   ownerAddresses, safeAddress, deployTxHash, safes, config,
                   world>>
    /\ IF EnsureOperationsFault # "none"
       THEN /\ ret' = Fault("checkProposalStatus", EnsureOperationsFault)
            /\ UNCHANGED <<operations, proposals>>
       ELSE /\ operations' = EnsureOperations
            /\ \/ /\ ret' = Fault("checkProposalStatus", "service")
                  /\ UNCHANGED proposals
               \/ /\ ServiceHas(safeTxHash, EnsureOperations.chain)
                  /\ proposals' =
                         LedgerAfterCheck(proposals, safeTxHash,
                                          getTransactionDetails(safeTxHash))
                  /\ ret' = StatusResult(safeTxHash,
                                         getTransactionDetails(safeTxHash))

\* executeIfReady up to its decision; it suspends before the second fetch.
executeIfReady(safeTxHash) ==
    /\ inflight = NoCall
    /\ UNCHANGED <<walletFile, keyLoaded, wizardState, agentAddress,
                   ownerAddresses, safeAddress, deployTxHash, safes, config,
                   remote, onchain, deployed>>
    /\ IF EnsureOperationsFault # "none"
       THEN /\ ret' = Fault("executeIfReady", EnsureOperationsFault)
            /\ UNCHANGED <<operations, proposals, inflight>>
       ELSE /\ operations' = EnsureOperations
            /\ \/ /\ ret' = Fault("executeIfReady", "init or service")
                  /\ UNCHANGED <<proposals, inflight>>
               \/ /\ IsDeployed(EnsureOperations.safe, EnsureOperations.chain)
                  /\ ServiceHas(safeTxHash, EnsureOperations.chain)
                  /\ LET details == getTransactionDetails(safeTxHash)
                         status == StatusResult(safeTxHash, details)
                     IN  /\ proposals' =
                                LedgerAfterCheck(proposals, safeTxHash, details)
                         /\ IF ReturnsWithoutExecuting(status)
                            THEN /\ ret' = [op |-> "executeIfReady",
                                            threw |-> FALSE,
                                            executed |-> FALSE,
                                            submitted |-> FALSE,
                                            safeTxHash |-> safeTxHash,
                                            status |-> status]
                                 /\ UNCHANGED inflight
                            ELSE /\ inflight' = [op |-> "executeIfReady",
                                                 safeTxHash |-> safeTxHash,
                                                 status |-> status]
                                 /\ ret' = [op |-> "executeIfReady",
                                            threw |-> FALSE,
                                            suspended |-> TRUE]

\* executeIfReady from the second fetch on.
executeIfReadyResume ==
    /\ inflight # NoCall
    /\ inflight.op = "executeIfReady"
    /\ inflight' = NoCall
    /\ UNCHANGED <<walletFile, keyLoaded, wizardState, agentAddress,
                   ownerAddresses, safeAddress, deployTxHash, safes, skill,
                   remote, deployed>>
    /\ LET safeTxHash == inflight.safeTxHash
           txResponse == remote[safeTxHash]
           signatures == SignaturesAdded(txResponse)
           attempt == [op |-> "executeIfReady", submitted |-> TRUE,
                       safeTxHash |-> safeTxHash,
                       status |-> inflight.status,
                       txResponse |-> txResponse,
                       signatures |-> signatures]
       IN  \/ /\ ret' = Fault("executeIfReady", "getTransaction")
              /\ UNCHANGED <<proposals, onchain>>
           \/ /\ ret' = [attempt EXCEPT !.op = "executeIfReady"]
                             @@ [threw |-> TRUE, executed |-> FALSE,
                                 msg |-> "execution failed"]
              /\ UNCHANGED <<proposals, onchain>>
           \/ /\ ChainWouldExecute(safeTxHash, signatures)
              /\ onchain' = onchain \cup {safeTxHash}
              /\ proposals' =
                     SM_updateProposalStatus(proposals, safeTxHash, "EXECUTED",
                                             ExecTx(safeTxHash))
              /\ ret' = attempt @@ [threw |-> FALSE, executed |-> TRUE,
                                    execTxHash |-> ExecTx(safeTxHash)]

\* A variant of agentAlreadySigned that counts the confirmations instead of
\* looking for the agent's address among them.
agentAlreadySigned_ByCount(status) == Len(status.confirmations) >= 2

\* status.confirmations.some(c => c.owner.toLowerCase() ===
\*                                 this.agentAddress.toLowerCase())
agentAlreadySigned(status) ==
    \E i \in 1 .. Len(status.confirmations) :
        toLowerCase(status.confirmations[i].owner) = toLowerCase(walletFile)

\* agentSignTransaction: check, sign and confirm, check again.
agentSignTransaction(safeTxHash) ==
    /\ inflight = NoCall
    /\ UNCHANGED <<walletFile, keyLoaded, wizardState, agentAddress,
                   ownerAddresses, safeAddress, deployTxHash, safes, config,
                   onchain, deployed, inflight>>
    /\ IF EnsureOperationsFault # "none"
       THEN /\ ret' = Fault("agentSignTransaction", EnsureOperationsFault)
            /\ UNCHANGED <<operations, proposals, remote>>
       ELSE /\ operations' = EnsureOperations
            /\ \/ /\ ret' = Fault("agentSignTransaction", "init or service")
                  /\ UNCHANGED <<proposals, remote>>
               \/ /\ IsDeployed(EnsureOperations.safe, EnsureOperations.chain)
                  /\ ServiceHas(safeTxHash, EnsureOperations.chain)
                  /\ LET details == getTransactionDetails(safeTxHash)
                         status == StatusResult(safeTxHash, details)
                         checked ==
                             LedgerAfterCheck(proposals, safeTxHash, details)
                         signature == signTransactionHash(safeTxHash)
                         confirmed ==
                             ServiceAfterConfirm(safeTxHash, walletFile,
                                                 signature)
                         result == [op |-> "agentSignTransaction",
                                    safeTxHash |-> safeTxHash,
                                    status |-> status]
                     IN  IF status.isExecuted \/ agentAlreadySigned(status)
                         THEN /\ proposals' = checked
                              /\ UNCHANGED remote
                              /\ ret' = result @@ [threw |-> FALSE,
                                                   signed |-> FALSE,
                                                   submitted |-> FALSE]
                         ELSE \/ /\ proposals' = checked
                                 /\ UNCHANGED remote
                                 /\ ret' = result @@ [threw |-> TRUE,
                                                      signed |-> FALSE,
                                                      submitted |-> FALSE]
                              \/ /\ walletFile.v \in
                                        OwnerValuesOf(safeTxHash.digest.safe)
                                 /\ remote' = confirmed
                                 /\ \/ /\ proposals' = checked
                                       /\ ret' = result @@
                                              [threw |-> TRUE,
                                               signed |-> FALSE,
                                               submitted |-> TRUE]
                                    \/ /\ proposals' =
                                              LedgerAfterCheck(checked,
                                                  safeTxHash,
                                                  confirmed[safeTxHash])
                                       /\ ret' = result @@
                                              [threw |-> FALSE,
                                               signed |-> TRUE,
                                               submitted |-> TRUE]

(***************************************************************************)
(* SafeWalletSkill: a new process, and the switch of the active Safe.      *)
(***************************************************************************)
\* new SafeWalletSkill() in a fresh process, CHAIN_ID naming the network.
Constructor(chainId) ==
    /\ config' = chainId
    /\ operations' = NoOps
    /\ keyLoaded' = FALSE
    /\ inflight' = NoCall
    /\ ret' = [op |-> "constructor", threw |-> FALSE]
    /\ wizardState' = disk.state.wizardState
    /\ agentAddress' = disk.state.agentAddress
    /\ ownerAddresses' = disk.state.ownerAddresses
    /\ safeAddress' = disk.state.safeAddress
    /\ deployTxHash' = disk.state.deployTxHash
    /\ proposals' = disk.state.proposals
    /\ customTokens' = disk.state.customTokens
    /\ safes' = LoadedSafes(disk.safes)
    /\ UNCHANGED <<walletFile, remote, onchain, deployed, disk>>

\* A variant of FindSafe that takes the first record whatever its address.
FindSafe_First(reg, checksummed) == IF reg = <<>> THEN 0 ELSE 1

\* safes.find(s => s.address.toLowerCase() === checksummed.toLowerCase())
FindSafe(reg, checksummed) ==
    LET hits == {i \in 1 .. Len(reg) :
                    toLowerCase(reg[i].address) = toLowerCase(checksummed)}
    IN  IF hits = {} THEN 0
        ELSE CHOOSE i \in hits : \A j \in hits : i <= j

\* Strings a caller may pass to select a Safe.
SelectInputs ==
    {Addr(safes[i].address.v, f) : i \in 1 .. Len(safes), f \in {"lc", "cs"}}
        \cup {Addr(2, "cs"), Addr(2, "bad")}

\* On a switch of the network the skill makes a new WizardOrchestrator,
\* whose StateManager loads the files again: the state document it loads
\* is the one setActiveSafe has just saved.
safeSelectSafe(address) ==
    /\ inflight = NoCall
    /\ UNCHANGED <<walletFile, wizardState, agentAddress, ownerAddresses,
                   deployTxHash, proposals, world>>
    /\ IF ~isAddress(address)
       THEN /\ ret' = Fault("safeSelectSafe", "invalid address")
            /\ UNCHANGED <<keyLoaded, safeAddress, safes, skill>>
       ELSE LET checksummed == getAddress(address)
                found == FindSafe(safes, checksummed)
            IN  IF found = 0
                THEN /\ ret' = Fault("safeSelectSafe", "not found in registry")
                     /\ UNCHANGED <<keyLoaded, safeAddress, safes, skill>>
                ELSE /\ safeAddress' = checksummed
                     /\ operations' = NoOps
                     /\ ret' = [op |-> "safeSelectSafe", threw |-> FALSE,
                                 safe |-> safes[found]]
                     /\ IF safes[found].chainId # config
                        THEN /\ config' = safes[found].chainId
                             /\ keyLoaded' = FALSE
                             /\ safes' = LoadedSafes(disk.safes)
                        ELSE UNCHANGED <<config, keyLoaded, safes>>

(***************************************************************************)
(* The environment: the human owners, the chain and the service's indexer. *)
(***************************************************************************)
\* An owner confirms in the Safe UI.
OwnerConfirm(safeTxHash, owner) ==
    /\ safeTxHash \in DOMAIN remote
    /\ ~remote[safeTxHash].isExecuted
    /\ owner.v \in OwnerValuesOf(safeTxHash.digest.safe)
    /\ ~HasConfirmed(remote[safeTxHash], owner)
    /\ remote' = [remote EXCEPT ![safeTxHash].confirmations =
                      Append(@, Confirmation(owner, safeTxHash))]
    /\ UNCHANGED <<walletFile, keyLoaded, store, skill, onchain, deployed,
                   inflight, ret>>

\* An owner proposes a transfer from the Safe in the Safe UI.
OwnerPropose(safe, chain, owner, amountEth) ==
    LET safeTx == createTransaction(safe, chain,
                                    SendETHCalls(Recipient, amountEth))
        safeTxHash == getTransactionHash(safeTx)
    IN  /\ IsDeployed(safe, chain)
        /\ owner.v \in OwnerValuesOf(safe)
        /\ safeTxHash \notin DOMAIN remote
        /\ Cardinality(DOMAIN remote) < MaxProposals
        /\ remote' = ServiceAfterPropose(safeTx, safeTxHash, owner,
                                         SignatureOf(owner, safeTxHash))
        /\ UNCHANGED <<walletFile, keyLoaded, store, skill, onchain, deployed,
                       inflight, ret>>

\* An owner executes in the Safe UI.
OwnerExecute(safeTxHash) ==
    /\ safeTxHash \in DOMAIN remote
    /\ ChainWouldExecute(safeTxHash,
                         SignaturesAdded(remote[safeTxHash]))
    /\ onchain' = onchain \cup {safeTxHash}
    /\ UNCHANGED <<walletFile, keyLoaded, store, skill, remote, deployed,
                   inflight, ret>>

\* The service indexes an execution it saw on the chain.
ServiceIndex(safeTxHash) ==
    /\ safeTxHash \in DOMAIN remote
    /\ safeTxHash \in onchain
    /\ ~remote[safeTxHash].isExecuted
    /\ remote' = [remote EXCEPT ![safeTxHash].isExecuted = TRUE,
                                ![safeTxHash].transactionHash =
                                    ExecTx(safeTxHash)]
    /\ UNCHANGED <<walletFile, keyLoaded, store, skill, onchain, deployed,
                   inflight, ret>>

\* The owners create the Safe of the same setup on another network: a Safe's
\* address is a function of its setup, so it is the same address there.
SafeCreatedElsewhere(safe, chain) ==
    /\ ~IsDeployed(safe, chain)
    /\ deployed' = deployed \cup {[safe |-> safe.v, chain |-> chain]}
    /\ UNCHANGED <<walletFile, keyLoaded, store, skill, remote, onchain,
                   inflight, ret>>

(***************************************************************************)
(* StateManager called directly: the registry.                             *)
(***************************************************************************)
\* Records recordSafe may be given: two vaults, each on either network, the
\* address in either letter case.
SafeRecords ==
    {[address |-> Addr(PredictAddr(<<Addr(1, "cs"), Addr(o, "cs")>>, 2).v, f),
      chainId |-> c,
      owners |-> <<Addr(1, "cs"), Addr(o, "cs")>>,
      threshold |-> 2] : o \in Humans, f \in {"lc", "cs"}, c \in Chains}

\* StateManager.recordSafe
recordSafe(safe) ==
    /\ inflight = NoCall
    /\ safes' = SM_recordSafe(safes, safe)
    /\ ret' = [op |-> "recordSafe", threw |-> FALSE, safe |-> safe]
    /\ UNCHANGED <<walletFile, keyLoaded, wizardState, agentAddress,
                   ownerAddresses, safeAddress, deployTxHash, proposals,
                   skill, world>>

(***************************************************************************)
(* StateManager called directly: the ledger.                               *)
(***************************************************************************)
\* Proposals addProposal may be given: what the propose operations save for
\* a 2-of-2 vault on the default network.
LedgerProposals ==
    LET safe == PredictAddr(<<Addr(1, "cs"), Addr(2, "cs")>>, 2)
        saved(intent) ==
            LET calls == CallsOf(intent, 0, safe)
                safeTx == createTransaction(safe, DEFAULT_CHAIN_ID, calls)
            IN  ProposalOf(intent, getTransactionHash(safeTx), calls)
    IN  {saved(intent) : intent \in LedgerIntents}

\* The status and execution hash updateProposalStatus may be given.
StatusUpdates ==
    {[status |-> st, executed |-> x] :
        st \in {"OWNER_CONFIRMED", "EXECUTED", "FAILED"},
        x \in BOOLEAN}

\* StateManager.addProposal
addProposal(proposal) ==
    /\ inflight = NoCall
    /\ proposals' = SM_addProposal(proposals, proposal)
    /\ ret' = [op |-> "addProposal", threw |-> FALSE,
                safeTxHash |-> proposal.safeTxHash]
    /\ UNCHANGED <<walletFile, keyLoaded, wizardState, agentAddress,
                   ownerAddresses, safeAddress, deployTxHash, safes, skill,
                   world>>

\* StateManager.updateProposalStatus
updateProposalStatus(safeTxHash, update) ==
    /\ inflight = NoCall
    /\ proposals' =
           SM_updateProposalStatus(proposals, safeTxHash, update.status,
               IF update.executed THEN ExecTx(safeTxHash) ELSE NoTx)
    /\ ret' = [op |-> "updateProposalStatus", threw |-> FALSE,
                safeTxHash |-> safeTxHash, update |-> update]
    /\ UNCHANGED <<walletFile, keyLoaded, wizardState, agentAddress,
                   ownerAddresses, safeAddress, deployTxHash, safes, skill,
                   world>>

\* StateManager.reset: the state document becomes createInitialState() and
\* is saved; the registry and the operations object are not touched.
reset ==
    /\ inflight = NoCall
    /\ wizardState' = InitialState.wizardState
    /\ agentAddress' = InitialState.agentAddress
    /\ ownerAddresses' = InitialState.ownerAddresses
    /\ safeAddress' = InitialState.safeAddress
    /\ deployTxHash' = InitialState.deployTxHash
    /\ proposals' = InitialState.proposals
    /\ customTokens' = InitialState.customTokens
    /\ ret' = [op |-> "reset", threw |-> FALSE]
    /\ UNCHANGED <<walletFile, keyLoaded, safes, skill, world>>

(***************************************************************************)
(* A second process of the same installation: it has its own StateManager, *)
(* loaded when it started, and shares wallet.json, state.json and          *)
(* safes.json with the first.                                              *)
(***************************************************************************)
\* new SafeWalletSkill() in the second process.
PeerConstructor ==
    /\ peer' = [up |-> TRUE, state |-> disk.state,
                safes |-> LoadedSafes(disk.safes)]
    /\ UNCHANGED <<walletFile, keyLoaded, store, skill, world, ret,
                   customTokens, disk, walletKey>>

\* wizardAddOwnerAddress in the second process, when it does not throw.
PeerAddOwnerAddress(ownerAddress) ==
    /\ peer.up
    /\ walletFile # NoAddr
    /\ ~AddressMismatch
    /\ isAddress(ownerAddress)
    /\ ~IsAgentAddress(getAddress(ownerAddress))
    /\ peer' = [peer EXCEPT
                   !.state.ownerAddresses =
                       SM_addOwnerAddress(@, getAddress(ownerAddress)),
                   !.state.wizardState = "READY_TO_DEPLOY_SAFE"]
    /\ disk' = [disk EXCEPT !.state = SavedDocument(peer'.state, @)]
    /\ UNCHANGED <<walletFile, keyLoaded, store, skill, world, ret,
                   customTokens, walletKey>>

(***************************************************************************)
(* wallet.json changed from outside: its address field is overwritten, so  *)
(* that it may differ from the address of the private key beside it.       *)
(***************************************************************************)
WalletEdited(stored) ==
    /\ walletFile # NoAddr
    /\ inflight = NoCall
    /\ walletFile' = stored
    /\ UNCHANGED <<keyLoaded, store, skill, world, ret, customTokens, disk,
                   peer, walletKey>>

(***************************************************************************)
(* A process that dies in the middle of a command.  Each mutator of the    *)
(* store writes its file when it is called, so a command that calls        *)
(* several mutators writes several times; the process may die after any    *)
(* of these writes, and the next process loads what the files hold.        *)
(***************************************************************************)
\* The files after each write of addOwnerAddress: addOwnerAddress of the
\* store saves if the owner is new, then setWizardState saves.
addOwnerAddressWrites(ownerAddress) ==
    LET list == SM_addOwnerAddress(ownerAddresses, getAddress(ownerAddress))
        added == [Doc EXCEPT !.ownerAddresses = list]
        ready == [added EXCEPT !.wizardState = "READY_TO_DEPLOY_SAFE"]
        file(doc) == [state |-> SavedDocument(doc, disk.state),
                      safes |-> disk.safes]
    IN  IF list = ownerAddresses
        THEN <<file(ready)>>
        ELSE <<file(added), file(ready)>>

\* The files after each write of deploySafe: setSafeDeployed saves the
\* state, recordSafe saves the registry if the record is new, setReady
\* saves the state.
deploySafeWrites(threshold) ==
    LET owners == AllOwners
        effectiveThreshold == EffectiveThreshold(threshold, owners)
        predicted == PredictAddr(owners, effectiveThreshold)
        txHash == [kind |-> "deploy", safe |-> predicted.v,
                   chain |-> config, ref |-> 0]
        reg == SM_recordSafe(safes,
                   [address |-> predicted, chainId |-> config,
                    owners |-> owners, threshold |-> effectiveThreshold])
        deployedDoc == [Doc EXCEPT !.safeAddress = predicted,
                                   !.deployTxHash = txHash,
                                   !.wizardState = "SAFE_DEPLOYED"]
        readyDoc == [deployedDoc EXCEPT !.wizardState = "READY"]
        first == [state |-> SavedDocument(deployedDoc, disk.state),
                  safes |-> disk.safes]
        second == [first EXCEPT !.safes = SavedSafes(reg)]
        third == [second EXCEPT
                     !.state = SavedDocument(readyDoc, second.state)]
    IN  IF reg = safes
        THEN <<first, [first EXCEPT !.state = third.state]>>
        ELSE <<first, second, third>>

\* The process died when `done` of the writes were made; the next process
\* of the same network loads the files.
CutShort(during, writes, done) ==
    /\ disk' = IF done = 0 THEN disk ELSE writes[done]
    /\ wizardState' = disk'.state.wizardState
    /\ agentAddress' = disk'.state.agentAddress
    /\ ownerAddresses' = disk'.state.ownerAddresses
    /\ safeAddress' = disk'.state.safeAddress
    /\ deployTxHash' = disk'.state.deployTxHash
    /\ proposals' = disk'.state.proposals
    /\ customTokens' = disk'.state.customTokens
    /\ safes' = LoadedSafes(disk'.safes)
    /\ keyLoaded' = FALSE
    /\ operations' = NoOps
    /\ ret' = [op |-> "crash", threw |-> TRUE, during |-> during,
                done |-> done, outOf |-> Len(writes),
                complete |-> writes[Len(writes)]]
    /\ UNCHANGED <<walletFile, config, remote, onchain, inflight>>

\* addOwnerAddress, cut short at one of the writes it would have made.
CrashInAddOwnerAddress(ownerAddress, done) ==
    /\ inflight = NoCall
    /\ walletFile # NoAddr
    /\ ~AddressMismatch
    /\ isAddress(ownerAddress)
    /\ ~IsAgentAddress(getAddress(ownerAddress))
    /\ done \in 0 .. Len(addOwnerAddressWrites(ownerAddress))
    /\ CutShort("addOwnerAddress", addOwnerAddressWrites(ownerAddress), done)
    /\ UNCHANGED deployed

\* deploySafe, cut short after the deployment at one of the writes it would
\* have made.
CrashInDeploySafe(threshold, done) ==
    LET owners == AllOwners
        predicted ==
            PredictAddr(owners, EffectiveThreshold(threshold, owners))
    IN  /\ inflight = NoCall
        /\ walletFile # NoAddr
        /\ ~AddressMismatch
        /\ CanDeployIn(wizardState)
        /\ Len(ownerAddresses) > 0
        /\ SdkAcceptsConfig(owners, EffectiveThreshold(threshold, owners))
        /\ Len(safes) < MaxSafes
        /\ ~IsDeployed(predicted, config)
        /\ done \in 0 .. Len(deploySafeWrites(threshold))
        /\ deployed' = deployed \cup
               {[safe |-> predicted.v, chain |-> config]}
        /\ CutShort("deploySafe", deploySafeWrites(threshold), done)

(***************************************************************************)
(* The specifications.                                                     *)
(***************************************************************************)
EmptyLedger == [h \in {} |-> NoTx]

Init ==
    /\ walletFile = NoAddr
    /\ keyLoaded = FALSE
    /\ wizardState = "INIT"
    /\ agentAddress = NoAddr
    /\ ownerAddresses = <<>>
    /\ safeAddress = NoAddr
    /\ deployTxHash = NoTx
    /\ proposals = EmptyLedger
    /\ safes = <<>>
    /\ config = DEFAULT_CHAIN_ID
    /\ operations = NoOps
    /\ remote = EmptyLedger
    /\ onchain = {}
    /\ deployed = {}
    /\ inflight = NoCall
    /\ ret = [op |-> "constructor", threw |-> FALSE]
    /\ customTokens = InitialState.customTokens
    /\ disk = [state |-> InitialState, safes |-> <<>>]
    /\ peer = [up |-> FALSE, state |-> InitialState, safes |-> <<>>]
    /\ walletKey = 0

\* What every command of the first process leaves alone unless it says
\* otherwise: the custom assets and the second process.
Aside == UNCHANGED <<customTokens, peer, walletKey>>

\* The calls of updateProposalStatus in checkProposalStatus save the state
\* when the hash is in the ledger and the fetched record meets its
\* threshold or is executed.
CheckSaves(safeTxHash, details) ==
    /\ safeTxHash \in DOMAIN proposals
    /\ \/ Len(details.confirmations) >= details.confirmationsRequired
       \/ details.isExecuted

WizardStart ==
    /\ UNCHANGED <<customTokens, peer>>
    /\ inflight = NoCall
    /\ start
    /\ Persist(~ret'.threw, FALSE)
WizardCheckAgentFunds ==
    /\ Aside
    /\ inflight = NoCall
    /\ checkAgentFunds
    /\ Persist(~ret'.threw, FALSE)
WizardAddOwnerAddress ==
    /\ Aside
    /\ inflight = NoCall
    /\ \E a \in OwnerInputs : addOwnerAddress(a)
    /\ Persist(~ret'.threw, FALSE)
WizardGetDeployOverview ==
    /\ Aside
    /\ inflight = NoCall
    /\ \E t \in ThresholdArgs : getDeployOverview(t)
    /\ Persist(FALSE, FALSE)
WizardDeploySafe ==
    /\ Aside
    /\ inflight = NoCall
    /\ \E t \in ThresholdArgs : deploySafe(t)
    /\ Persist(~ret'.threw, ~ret'.threw /\ safes' # safes)
SafePropose ==
    /\ Aside
    /\ \E intent \in LedgerIntents : propose(intent)
    /\ Persist(~ret'.threw, FALSE)
SafeProposeAny ==
    /\ Aside
    /\ \E intent \in Intents : propose(intent)
    /\ Persist(~ret'.threw, FALSE)
SafeCheckProposalStatus ==
    /\ Aside
    /\ \E h \in KnownHashes :
           /\ checkProposalStatus(h)
           /\ Persist(~ret'.threw /\ CheckSaves(h, remote[h]), FALSE)
SafeExecuteIfReady ==
    /\ Aside
    /\ \E h \in KnownHashes :
           /\ executeIfReady(h)
           /\ Persist(~ret'.threw /\ CheckSaves(h, remote[h]), FALSE)
SafeExecuteIfReadyResume ==
    /\ Aside
    /\ executeIfReadyResume
    /\ Persist(~ret'.threw /\ inflight.safeTxHash \in DOMAIN proposals, FALSE)
SafeSelectSafe ==
    /\ Aside
    /\ \E a \in SelectInputs : safeSelectSafe(a)
    /\ Persist(~ret'.threw, FALSE)
NewProcess ==
    /\ \E c \in Chains : Constructor(c)
    /\ UNCHANGED <<peer, walletKey>>
Owners ==
    /\ \/ \E h \in DOMAIN remote, o \in Humans :
              OwnerConfirm(h, Addr(o, "cs"))
       \/ \E h \in DOMAIN remote : OwnerExecute(h)
    /\ UNCHANGED <<customTokens, disk, peer, walletKey>>
Indexer ==
    /\ \E h \in DOMAIN remote : ServiceIndex(h)
    /\ UNCHANGED <<customTokens, disk, peer, walletKey>>
SafeGetSwapQuote ==
    /\ Aside
    /\ \E intent \in SwapIntents : getSwapQuote(intent)
    /\ Persist(FALSE, FALSE)
SafeProposeSwap ==
    /\ Aside
    /\ \E intent \in SwapIntents : propose(intent)
    /\ Persist(~ret'.threw, FALSE)
SafeAgentSign ==
    /\ Aside
    /\ \E h \in KnownHashes :
           /\ agentSignTransaction(h)
           /\ Persist(/\ "status" \in DOMAIN ret'
                      /\ \/ CheckSaves(h, remote[h])
                         \/ ret'.signed /\ CheckSaves(h, remote'[h]),
                      FALSE)
OwnerProposes ==
    /\ \E i \in 1 .. Len(safes), o \in Humans :
           OwnerPropose(safes[i].address, safes[i].chainId, Addr(o, "cs"), 2)
    /\ UNCHANGED <<customTokens, disk, peer, walletKey>>
OtherNetworks ==
    /\ \E i \in 1 .. Len(safes), c \in Chains :
           SafeCreatedElsewhere(safes[i].address, c)
    /\ UNCHANGED <<customTokens, disk, peer, walletKey>>

SafeAddToken ==
    /\ UNCHANGED <<peer, walletKey>>
    /\ \E token \in TokenInputs : addToken(token)
    /\ Persist(customTokens' # customTokens, FALSE)
\* safeAddToken given the token at the unlisted address.
SafeAddUnlistedToken ==
    /\ UNCHANGED <<peer, walletKey>>
    /\ \E token \in {t \in TokenInputs : t.address = Unlisted} :
           addToken(token)
    /\ Persist(customTokens' # customTokens, FALSE)
SafeProposeAsset ==
    /\ Aside
    /\ \E intent \in AssetIntents : propose(intent)
    /\ Persist(~ret'.threw, FALSE)

StoreRecordSafe ==
    /\ Aside
    /\ \E safe \in SafeRecords :
           /\ Len(SM_recordSafe(safes, safe)) <= MaxRecords
           /\ recordSafe(safe)
    /\ Persist(FALSE, safes' # safes)

StoreAddProposal ==
    /\ Aside
    /\ \E proposal \in LedgerProposals : addProposal(proposal)
    /\ Persist(TRUE, FALSE)
StoreUpdateProposalStatus ==
    /\ Aside
    /\ \E proposal \in LedgerProposals, update \in StatusUpdates :
           /\ updateProposalStatus(proposal.safeTxHash, update)
           /\ Persist(proposal.safeTxHash \in DOMAIN proposals, FALSE)
StoreReset ==
    /\ reset
    /\ Persist(TRUE, FALSE)
    /\ UNCHANGED <<peer, walletKey>>

WizardAddOwnerAddressCrash ==
    /\ UNCHANGED <<peer, walletKey>>
    /\ \E a \in OwnerInputs, done \in 0 .. 2 : CrashInAddOwnerAddress(a, done)
WizardDeploySafeCrash ==
    /\ UNCHANGED <<peer, walletKey>>
    /\ \E t \in ThresholdArgs, done \in 0 .. 3 : CrashInDeploySafe(t, done)

WalletIsEdited ==
    \E n \in Humans \cup AgentKeys : WalletEdited(Addr(n, "cs"))

PeerStarts == PeerConstructor
PeerAddsOwner == \E a \in OwnerInputs : PeerAddOwnerAddress(a)

\* One process on the default network: onboarding, then the lifecycle of
\* proposals with the owners, the chain and the service around it.
Next ==
    \/ WizardStart
    \/ WizardCheckAgentFunds
    \/ WizardAddOwnerAddress
    \/ WizardGetDeployOverview
    \/ WizardDeploySafe
    \/ SafePropose
    \/ SafeCheckProposalStatus
    \/ SafeExecuteIfReady
    \/ SafeExecuteIfReadyResume
    \/ Owners
    \/ Indexer

Spec == Init /\ [][Next]_vars

\* Processes started on either network, the switch of the active Safe, and
\* the propose operations up to the Proposal they save.
NextNetworks ==
    \/ WizardStart
    \/ WizardCheckAgentFunds
    \/ WizardAddOwnerAddress
    \/ WizardGetDeployOverview
    \/ WizardDeploySafe
    \/ SafePropose
    \/ SafeSelectSafe
    \/ NewProcess
    \/ OtherNetworks

SpecNetworks == Init /\ [][NextNetworks]_vars

\* One process on the default network: the deployment of a vault, then
\* every propose operation with every answer of the quoter.
NextIntents ==
    \/ WizardStart
    \/ WizardAddOwnerAddress
    \/ WizardDeploySafe
    \/ SafeProposeAny

SpecIntents == Init /\ [][NextIntents]_vars

\* One process on the default network: the deployment of a vault, then the
\* quotes and the swaps, with every answer of the factory and the quoter.
NextQuotes ==
    \/ WizardStart
    \/ WizardAddOwnerAddress
    \/ WizardDeploySafe
    \/ SafeGetSwapQuote
    \/ SafeProposeSwap

SpecQuotes == Init /\ [][NextQuotes]_vars

\* One process on the default network: a vault, transactions proposed by
\* the agent or by an owner, and the agent's confirmation of them.
NextSign ==
    \/ WizardStart
    \/ WizardAddOwnerAddress
    \/ WizardDeploySafe
    \/ SafePropose
    \/ SafeAgentSign
    \/ OwnerProposes
    \/ Owners
    \/ Indexer

SpecSign == Init /\ [][NextSign]_vars

\* The registry alone: recordSafe, and processes that load safes.json.
NextRegistry ==
    \/ StoreRecordSafe
    \/ NewProcess

SpecRegistry == Init /\ [][NextRegistry]_vars

\* The ledger alone: the operations of the store on it, and processes that
\* load state.json.
NextLedger ==
    \/ StoreAddProposal
    \/ StoreUpdateProposalStatus
    \/ StoreReset
    \/ NewProcess

SpecLedger == Init /\ [][NextLedger]_vars

\* Two processes of one installation collecting owners.
NextShared ==
    \/ WizardStart
    \/ WizardAddOwnerAddress
    \/ NewProcess
    \/ PeerStarts
    \/ PeerAddsOwner

SpecShared == Init /\ [][NextShared]_vars

\* Assets named by address or by an unknown text, and custom tokens.
NextAssets ==
    \/ WizardStart
    \/ WizardAddOwnerAddress
    \/ WizardDeploySafe
    \/ SafeAddToken
    \/ SafeProposeAsset

SpecAssets == Init /\ [][NextAssets]_vars

\* Custom tokens on two networks.
NextTokens ==
    \/ WizardStart
    \/ WizardAddOwnerAddress
    \/ WizardDeploySafe
    \/ SafeAddToken
    \/ NewProcess

SpecTokens == Init /\ [][NextTokens]_vars

\* One process after the other on either network: every command that
\* changes the store, and restarts.
NextRestart ==
    \/ WizardStart
    \/ WizardAddOwnerAddress
    \/ WizardDeploySafe
    \/ SafePropose
    \/ SafeAddUnlistedToken
    \/ SafeSelectSafe
    \/ NewProcess

SpecRestart == Init /\ [][NextRestart]_vars

\* The setup wizard with processes that die in the middle of a command.
NextCrash ==
    \/ WizardStart
    \/ WizardAddOwnerAddress
    \/ WizardDeploySafe
    \/ WizardAddOwnerAddressCrash
    \/ WizardDeploySafeCrash

SpecCrash == Init /\ [][NextCrash]_vars

\* The setup wizard over a wallet.json that may be changed from outside.
NextWallet ==
    \/ WizardStart
    \/ WizardCheckAgentFunds
    \/ WizardAddOwnerAddress
    \/ WizardGetDeployOverview
    \/ WizardDeploySafe
    \/ NewProcess
    \/ WalletIsEdited

SpecWallet == Init /\ [][NextWallet]_vars

\* One process on the default network: a vault, transactions proposed by
\* the agent or by an owner, and the agent checking, confirming and
\* executing them.
NextForeign ==
    \/ WizardStart
    \/ WizardAddOwnerAddress
    \/ WizardDeploySafe
    \/ SafePropose
    \/ SafeCheckProposalStatus
    \/ SafeExecuteIfReady
    \/ SafeExecuteIfReadyResume
    \/ SafeAgentSign
    \/ OwnerProposes
    \/ Owners
    \/ Indexer

SpecForeign == Init /\ [][NextForeign]_vars

\* The setup wizard alone.
NextWizard ==
    \/ WizardStart
    \/ WizardCheckAgentFunds
    \/ WizardAddOwnerAddress
    \/ WizardGetDeployOverview
    \/ WizardDeploySafe

SpecWizard == Init /\ [][NextWizard]_vars

(***************************************************************************)
(* Properties of the propose / confirm / execute lifecycle.                *)
(***************************************************************************)
\* The last call was an executeIfReady that handed an execution to the chain.
Submitted ==
    /\ ret.op = "executeIfReady"
    /\ "submitted" \in DOMAIN ret
    /\ ret.submitted

\* C1: no transaction executes with the agent's signature alone: for a vault
\* deployed through deploySafe with any threshold argument it accepts,
\* executeIfReady submits an execution only when the confirmations it
\* collected include a signature of an owner other than the agent.
C1_HumanSignatureInEveryExecution ==
    Submitted =>
        \E i \in DOMAIN ret.signatures :
            toLowerCase(ret.signatures[i].signer) # toLowerCase(walletFile)

StatusRank(status) ==
    CASE status = "DRAFT" -> 0
      [] status = "PROPOSED" -> 1
      [] status = "OWNER_CONFIRMED" -> 2
      [] status = "EXECUTED" -> 3
      [] OTHER -> 4

\* C2: the stored status of an action hash is created as PROPOSED, only moves
\* forward in the order PROPOSED < OWNER_CONFIRMED < EXECUTED, and never
\* changes again once it is EXECUTED or FAILED.
C2_StatusMonotone ==
    [][\A h \in DOMAIN proposals' :
          IF h \in DOMAIN proposals
          THEN /\ StatusRank(proposals[h].status)
                     <= StatusRank(proposals'[h].status)
               /\ proposals[h].status \in {"EXECUTED", "FAILED"}
                     => proposals'[h].status = proposals[h].status
          ELSE proposals'[h].status = "PROPOSED"]_vars

\* The vault the operations run against is in the registry for the active
\* network.
RecordedOnActiveNetwork(safe) ==
    \E i \in 1 .. Len(safes) :
        /\ toLowerCase(safes[i].address) = toLowerCase(safe)
        /\ safes[i].chainId = config

\* C3: a propose operation either fails before it builds, signs or submits
\* anything and creates no Proposal, or runs against a vault address that
\* was deployed (recorded) on the currently active network.
C3_ProposeOnVaultOfActiveNetwork ==
    (ret.op = "propose" /\ ~ret.threw) =>
        RecordedOnActiveNetwork(ret.safeTx.safe)

\* C4: in every state the stored owner list does not contain the agent's
\* address, compared case-insensitively; addOwnerAddress with the agent's
\* address throws and leaves the owner list and the wizard state unchanged.
C4_AgentNeverAnOwner ==
    [][/\ \A i \in 1 .. Len(ownerAddresses') :
              toLowerCase(ownerAddresses'[i]) # toLowerCase(walletFile')
       /\ \A a \in OwnerInputs :
              ( /\ a.v \in AgentKeys
                /\ isAddress(a)
                /\ walletFile # NoAddr
                /\ addOwnerAddress(a) )
              => /\ ret'.threw
                 /\ UNCHANGED <<ownerAddresses, wizardState>>]_vars

\* addOwnerAddress refused the agent's address, in either letter case, while
\* an owner was already stored.
C4_Witness ==
    /\ ret = Fault("addOwnerAddress", "same as agent")
    /\ Len(ownerAddresses) > 0
    /\ wizardState = "READY_TO_DEPLOY_SAFE"

WizardRank(state) ==
    CHOOSE i \in 1 .. Len(WizardStates) : WizardStates[i] = state

\* C5: the onboarding state only moves forward along INIT, ..., READY; the
\* one backward step is checkAgentFunds finding the funds insufficient,
\* which routes back to AWAIT_USER_FUNDS_CONFIRMATION.
C5_OnboardingOnlyForward ==
    [][\/ WizardRank(wizardState') >= WizardRank(wizardState)
       \/ /\ ret'.op = "checkAgentFunds"
          /\ ~ret'.threw
          /\ ~ret'.ok
          /\ wizardState' = "AWAIT_USER_FUNDS_CONFIRMATION"]_vars

\* The propose operations that spend an ERC20 asset into a spender contract.
SpendsERC20(intent) ==
    \/ intent.kind = "swap" /\ intent.token # "ETH"
    \/ intent.kind = "aaveDeposit"

\* C6: an intent that spends an ERC20 asset into a spender contract builds
\* exactly two calls, approve(spender, amount) to the token contract and then
\* the action call to that spender with the same amount; a swap from native
\* ETH builds exactly one call, carrying the input amount as its value.
C6_BatchedComposition ==
    (ret.op = "propose" /\ ~ret.threw) =>
        LET calls == ret.safeTx.calls
            intent == ret.intent
            spender == IF intent.kind = "swap" THEN SwapRouter ELSE AavePool
            amount == parseUnits(intent.amount, 6)
        IN  /\ SpendsERC20(intent) =>
                /\ Len(calls) = 2
                /\ calls[1].to = USDC
                /\ calls[1].fn = "approve"
                /\ calls[1].args = <<spender, amount>>
                /\ calls[2].to = spender
                /\ calls[2].fn =
                       (IF intent.kind = "swap" THEN "exactInputSingle"
                        ELSE "supply")
                /\ amount =
                       (IF intent.kind = "swap" THEN calls[2].args[4]
                        ELSE calls[2].args[2])
            /\ (intent.kind = "swap" /\ intent.token = "ETH") =>
                /\ Len(calls) = 1
                /\ calls[1].to = SwapRouter
                /\ calls[1].fn = "exactInputSingle"
                /\ calls[1].value = parseEther(intent.amount)

\* A swap from USDC was proposed: the batch of approve and swap.
C6_Witness ==
    /\ ret.op = "propose"
    /\ ~ret.threw
    /\ ret.intent.kind = "swap"
    /\ ret.intent.token = "USDC"
    /\ Len(ret.safeTx.calls) = 2

\* C7: whatever the order of the confirmations the service returned,
\* executeTransactionFromService adds the signatures in ascending order of
\* owner address, and the signatures added are exactly the confirmations
\* returned, none dropped and none twice.
C7_SignaturesSortedPermutation ==
    Submitted =>
        LET sigs == ret.signatures
            confs == ret.txResponse.confirmations
            AsSignature(c) == [signer |-> c.owner, data |-> c.signature]
        IN  /\ \A i, j \in 1 .. Len(sigs) :
                   i < j => toLowerCase(sigs[i].signer).v
                                <= toLowerCase(sigs[j].signer).v
            /\ Len(sigs) = Len(confs)
            /\ \A k \in 1 .. Len(confs) :
                   Cardinality({i \in 1 .. Len(sigs) :
                                   sigs[i] = AsSignature(confs[k])})
                       = Cardinality({i \in 1 .. Len(confs) :
                                         confs[i] = confs[k]})

\* An execution was submitted for confirmations the service returned out of
\* order.
C7_Witness ==
    /\ Submitted
    /\ \E i, j \in 1 .. Len(ret.txResponse.confirmations) :
           /\ i < j
           /\ ret.txResponse.confirmations[i].owner.v
                  > ret.txResponse.confirmations[j].owner.v

\* The threshold the vault of an action hash was deployed with.
DeployedThreshold(safeTxHash) ==
    LET i == FindSafe(safes, safeTxHash.digest.safe) IN safes[i].threshold

\* The owners other than the agent among the confirmations.
FurtherOwners(confirmations) ==
    {confirmations[i].owner.v : i \in 1 .. Len(confirmations)} \ AgentKeys

\* C8: for a vault of threshold t, after a successful propose, once t-1
\* further owners have confirmed, checkProposalStatus reports readyToExecute
\* (as long as the record is not executed); and when the execution succeeds,
\* executeIfReady returns executed with a non-empty execution hash and the
\* stored Proposal has status EXECUTED with that hash.
C8_EndToEndProgress ==
    /\ ( /\ ret.op = "checkProposalStatus"
          /\ ~ret.threw
          /\ ret.safeTxHash \in DOMAIN proposals
          /\ ~ret.isExecuted
          /\ Cardinality(FurtherOwners(ret.confirmations))
                 >= DeployedThreshold(ret.safeTxHash) - 1 )
       => ret.readyToExecute
    /\ ( /\ ret.op = "executeIfReady"
          /\ "executed" \in DOMAIN ret
          /\ ret.executed )
       => /\ ret.execTxHash # NoTx
          /\ ret.safeTxHash \in DOMAIN proposals
                 => /\ proposals[ret.safeTxHash].status = "EXECUTED"
                    /\ proposals[ret.safeTxHash].executedTxHash
                           = ret.execTxHash

\* A 2-of-3 vault: the agent proposed, one further owner confirmed, and
\* executeIfReady executed the action.
C8_Witness ==
    /\ ret.op = "executeIfReady"
    /\ "executed" \in DOMAIN ret
    /\ ret.executed
    /\ DeployedThreshold(ret.safeTxHash) = 2
    /\ Cardinality(OwnerValuesOf(ret.safeTxHash.digest.safe)) = 3
    /\ Len(ret.txResponse.confirmations) = 2
    /\ proposals[ret.safeTxHash].status = "EXECUTED"

\* The record executeIfReady fetched is short of the threshold or executed.
FetchedNotReady(status) ==
    \/ status.isExecuted
    \/ Len(status.confirmations) < status.confirmationsRequired

\* C9: executeIfReady submits an execution only if the record it fetched in
\* that call shows confirmations >= confirmationsRequired and not executed,
\* whatever the stored status; when the record is executed or short of the
\* threshold it returns executed = false, without throwing or submitting.
C9_ExecuteOnlyOnFetchedReadiness ==
    (ret.op = "executeIfReady" /\ "status" \in DOMAIN ret) =>
        /\ ret.submitted => ~FetchedNotReady(ret.status)
        /\ FetchedNotReady(ret.status) =>
               /\ ~ret.threw
               /\ ~ret.executed
               /\ ~ret.submitted

\* executeIfReady returned without submitting for a stored Proposal, the
\* record it fetched being short of the threshold.
C9_Witness ==
    /\ ret.op = "executeIfReady"
    /\ "status" \in DOMAIN ret
    /\ ~ret.submitted
    /\ ~ret.status.isExecuted
    /\ Len(ret.status.confirmations) < ret.status.confirmationsRequired
    /\ ret.safeTxHash \in DOMAIN proposals

\* C10: when the execution step of executeIfReady fails, the fault reaches
\* the caller and the stored Proposal is left OWNER_CONFIRMED with no
\* execution hash recorded.
C10_FailedExecutionLeavesConfirmed ==
    ( /\ Submitted
      /\ ~ret.executed
      /\ ret.safeTxHash \in DOMAIN proposals )
    => /\ ret.threw
       /\ proposals[ret.safeTxHash].status = "OWNER_CONFIRMED"
       /\ proposals[ret.safeTxHash].executedTxHash = NoTx

(***************************************************************************)
(* Properties of the single operations.                                    *)
(***************************************************************************)
\* The confirmations by the agent, matched by address in any letter case.
AgentConfirmations(confirmations) ==
    {i \in 1 .. Len(confirmations) :
        toLowerCase(confirmations[i].owner) = toLowerCase(walletFile)}

\* C11: agentSignTransaction submits no confirmation, and reports so without
\* throwing, when the record it fetched is executed or already lists the
\* agent's address (in any letter case); it submits only when the record is
\* not executed and does not list the agent, and then the service holds
\* exactly one confirmation by the agent, so no record ever holds two.
C11_AgentSignIdempotent ==
    [][/\ \A h \in KnownHashes :
              ( /\ agentSignTransaction(h)
                /\ "submitted" \in DOMAIN ret' )
              => /\ ret'.submitted
                       => /\ ~remote[h].isExecuted
                          /\ AgentConfirmations(remote[h].confirmations) = {}
                          /\ Cardinality(AgentConfirmations(
                                 remote'[h].confirmations)) = 1
                 /\ ( \/ remote[h].isExecuted
                      \/ AgentConfirmations(remote[h].confirmations) # {} )
                       => /\ ~ret'.submitted
                          /\ ~ret'.signed
                          /\ ~ret'.threw
                          /\ remote' = remote
       /\ \A h \in DOMAIN remote' :
              Cardinality(AgentConfirmations(remote'[h].confirmations)) <= 1
      ]_vars

\* A transaction an owner proposed: the agent confirmed it, and a further
\* agentSignTransaction for the same hash found the agent's address in the
\* list and submitted nothing.
C11_Witness ==
    /\ ret.op = "agentSignTransaction"
    /\ "submitted" \in DOMAIN ret
    /\ ~ret.submitted
    /\ ~ret.threw
    /\ ~ret.status.isExecuted
    /\ ret.status.confirmations[1].owner.v \in Humans
    /\ AgentConfirmations(ret.status.confirmations) # {}

\* C12: a propose operation that fails submits nothing; one that succeeds
\* returns the hash of the fully assembled action, the service files that
\* action under that hash, and the confirmation filed with it is the agent's
\* signature over exactly that hash.
C12_HashSignSubmitOrder ==
    [][ret'.op = "propose" =>
              IF ret'.threw
              THEN remote' = remote
              ELSE LET h == ret'.safeTxHash IN
                   /\ \E amountOut \in QuoteAnswersFor(ret'.intent) :
                          ret'.safeTx.calls =
                              CallsOf(ret'.intent, amountOut,
                                      ret'.safeTx.safe)
                   /\ h = [digest |-> ret'.safeTx]
                   /\ ret'.senderSignature = [by |-> walletFile.v, over |-> h]
                   /\ h \in DOMAIN remote'
                   /\ remote'[h].safeTx = ret'.safeTx
                   /\ \E i \in 1 .. Len(remote'[h].confirmations) :
                          remote'[h].confirmations[i] =
                              [owner |-> walletFile,
                               signature |-> ret'.senderSignature]
      ]_vars

\* An Aave deposit was proposed: the service holds the batch of two calls
\* under the returned hash, with the agent's signature.
C12_Witness ==
    /\ ret.op = "propose"
    /\ ~ret.threw
    /\ ret.intent.kind = "aaveDeposit"
    /\ ret.safeTxHash \in DOMAIN remote
    /\ Len(remote[ret.safeTxHash].safeTx.calls) = 2
    /\ remote[ret.safeTxHash].confirmations[1].signature = ret.senderSignature

\* C13: a propose operation that fails leaves the proposal ledger as it was;
\* one that succeeds has been accepted by the service and saves exactly one
\* Proposal, in status PROPOSED, under the action hash.
C13_PersistOnlyAfterAccepted ==
    [][ret'.op = "propose" =>
              IF ret'.threw
              THEN proposals' = proposals
              ELSE LET h == ret'.safeTxHash IN
                   /\ h \in DOMAIN remote'
                   /\ DOMAIN proposals' = DOMAIN proposals \cup {h}
                   /\ proposals'[h].safeTxHash = h
                   /\ proposals'[h].status = "PROPOSED"
                   /\ \A g \in DOMAIN proposals \ {h} :
                          proposals'[g] = proposals[g]
      ]_vars

\* The service refused a proposal while the ledger held an earlier one: the
\* ledger holds only what the service accepted.
C13_Witness ==
    /\ ret = Fault("propose", "service")
    /\ DOMAIN proposals # {}
    /\ DOMAIN proposals = DOMAIN remote

\* C14: the minimum output of a quote is floor(amountOut * 9950 / 10000) and
\* at most amountOut, and it is the minimum the swap call carries.
C14_MinimumOutput ==
    ("quote" \in DOMAIN ret) =>
        LET out == ret.amountOut
            min == ret.quote.toToken.amountMinRaw.units
        IN  /\ ret.quote.toToken.amountRaw = Raw(out)
            /\ min >= 0
            /\ min <= out
            /\ 10000 * min <= 9950 * out
            /\ 9950 * out < 10000 * (min + 1)
            /\ ret.op = "propose" =>
                   ret.safeTx.calls[Len(ret.safeTx.calls)].args[5] = Raw(min)

\* A swap was proposed on a quote of 201 units: the minimum is 199, the
\* floor of 199.995.
C14_Witness ==
    /\ ret.op = "propose"
    /\ "quote" \in DOMAIN ret
    /\ ret.amountOut = 201
    /\ ret.quote.toToken.amountMinRaw = Raw(199)

\* C15: when the factory answers the zero address, getSwapQuote and
\* proposeSwap throw the pool-not-found fault, and proposeSwap builds no
\* action, submits nothing to the service and saves no Proposal.
C15_NoPoolNoProposal ==
    [][( /\ ret'.op \in {"propose", "getSwapQuote"}
         /\ "lookup" \in DOMAIN ret'
         /\ ret'.lookup = "zero" )
       => /\ ret'.threw
          /\ ret'.msg = "No Uniswap pool exists"
          /\ "safeTx" \notin DOMAIN ret'
          /\ UNCHANGED <<proposals, remote>>
      ]_vars

\* proposeSwap met the zero address after an earlier proposal: the ledger
\* and the service still hold that proposal alone.
C15_Witness ==
    /\ ret.op = "propose"
    /\ ret.threw
    /\ "lookup" \in DOMAIN ret
    /\ ret.lookup = "zero"
    /\ DOMAIN proposals # {}
    /\ DOMAIN proposals = DOMAIN remote

\* C16: the pool-not-found fault is thrown only when the factory answered
\* the zero address; a lookup that failed is not reported as a missing pool.
C16_NoPoolOnlyOnZeroAddress ==
    ( /\ "lookup" \in DOMAIN ret
      /\ ret.threw
      /\ ret.msg = "No Uniswap pool exists" )
    => ret.lookup = "zero"

(***************************************************************************)
(* Properties of the setup wizard.                                         *)
(***************************************************************************)
\* C17: start creates a signing identity only when there is none; once the
\* wallet file exists no step changes it, and a further start returns the
\* address of that file, creates nothing and leaves the wizard state no
\* earlier than it was.
C17_StartIdempotent ==
    [][/\ walletFile # NoAddr => walletFile' = walletFile
       /\ start =>
              /\ ret'.created <=> walletFile = NoAddr
              /\ ret'.agentAddress = walletFile'
              /\ agentAddress' = walletFile'
              /\ walletFile # NoAddr =>
                     /\ ret'.agentAddress = agentAddress
                     /\ WizardRank(wizardState') >= WizardRank(wizardState)
      ]_vars

\* start was called again after the vault was deployed: it returned the
\* stored address and the wizard state is still READY.
C17_Witness ==
    /\ ret.op = "start"
    /\ ~ret.created
    /\ ret.agentAddress = walletFile
    /\ wizardState = "READY"

\* The owners of the list, by the value of their address.
OwnerValues(list) == {list[i].v : i \in 1 .. Len(list)}

\* C18: the owner list never holds the same address twice, in any letter
\* case; addOwnerAddress with an address already in the list does not throw
\* and leaves the list as it is, and with a new address it makes the list
\* longer by exactly one.
C18_OwnersWithoutDuplicates ==
    [][/\ \A i, j \in 1 .. Len(ownerAddresses') :
              toLowerCase(ownerAddresses'[i]) = toLowerCase(ownerAddresses'[j])
                  => i = j
       /\ \A a \in OwnerInputs :
              ( /\ addOwnerAddress(a)
                /\ isAddress(a)
                /\ walletFile # NoAddr
                /\ a.v \notin AgentKeys )
              => /\ ~ret'.threw
                 /\ IF a.v \in OwnerValues(ownerAddresses)
                    THEN ownerAddresses' = ownerAddresses
                    ELSE Len(ownerAddresses') = Len(ownerAddresses) + 1
      ]_vars

\* addOwnerAddress accepted the address that is first in a list of two: it
\* was called with an address the list already held.
C18_Witness ==
    /\ ret.op = "addOwnerAddress"
    /\ ~ret.threw
    /\ Len(ownerAddresses) = 2
    /\ ret.ownerAddress = ownerAddresses[1]

\* C19: deploySafe throws when the wizard state is not READY_TO_DEPLOY_SAFE
\* and when the owner list is empty; nothing is deployed, and the wizard
\* state, the active vault and the registry are unchanged.
C19_DeployOnlyWhenReady ==
    [][\A t \in ThresholdArgs :
          ( /\ deploySafe(t)
            /\ \/ wizardState # "READY_TO_DEPLOY_SAFE"
               \/ Len(ownerAddresses) = 0 )
          => /\ ret'.threw
             /\ UNCHANGED <<wizardState, safeAddress, deployTxHash, safes,
                            deployed>>
      ]_vars

\* deploySafe was called again after the vault was deployed: it threw and
\* the registry holds the one vault.
C19_Witness ==
    /\ ret = Fault("deploySafe", "Cannot deploy in current state")
    /\ wizardState = "READY"
    /\ Len(safes) = 1
    /\ safeAddress = safes[1].address

\* C20: after deploySafe succeeds the registry holds a record for the
\* deployed address on the active network, with the agent followed by the
\* collected owners and with the threshold the vault was deployed with (the
\* threshold argument, or the number of owners when it is absent or 0); the
\* active vault is the deployed address and the wizard state is READY.
C20_DeployRecordsVault ==
    [][\A t \in ThresholdArgs :
          ( deploySafe(t) /\ ~ret'.threw )
          => /\ \E i \in 1 .. Len(safes') :
                    /\ safes'[i].address = ret'.safeAddress
                    /\ safes'[i].chainId = config
                    /\ safes'[i].owners = <<walletFile>> \o ownerAddresses
                    /\ safes'[i].threshold =
                           (IF t.given /\ t.val # 0 THEN t.val
                            ELSE 1 + Len(ownerAddresses))
                    /\ safes'[i].threshold = ThresholdOf(ret'.safeAddress)
             /\ [safe |-> ret'.safeAddress.v, chain |-> config] \in deployed'
             /\ safeAddress' = ret'.safeAddress
             /\ wizardState' = "READY"
      ]_vars

\* A 2-of-3 vault was deployed with an explicit threshold.
C20_Witness ==
    /\ ret.op = "deploySafe"
    /\ ~ret.threw
    /\ Len(safes) = 1
    /\ Len(safes[1].owners) = 3
    /\ safes[1].threshold = 2
    /\ safeAddress = safes[1].address
    /\ wizardState = "READY"

(***************************************************************************)
(* Properties of the threshold, the registry and the ledger.               *)
(***************************************************************************)
\* C21: the effective threshold is the threshold argument whenever one is
\* given, and the number of owners (agent and collected owners) otherwise;
\* getDeployOverview(t) shows and deploySafe(t) deploys the owner list made
\* of the agent followed by the collected owners, with that threshold.
C21_ExplicitThresholdIsUsed ==
    [][\A t \in ThresholdArgs :
          LET expected == IF t.given THEN t.val ELSE 1 + Len(ownerAddresses)
          IN  /\ ( getDeployOverview(t) /\ ~ret'.threw )
                 => /\ ret'.owners = <<walletFile>> \o ownerAddresses
                    /\ ret'.threshold = expected
              /\ ( deploySafe(t) /\ ~ret'.threw )
                 => /\ safes'[Len(safes')].owners =
                           <<walletFile>> \o ownerAddresses
                    /\ ThresholdOf(ret'.safeAddress) = expected
      ]_vars

\* The operations of the setup wizard.
OnboardingOps ==
    {"start", "checkAgentFunds", "addOwnerAddress", "getDeployOverview",
     "deploySafe"}

\* C30: an onboarding operation that throws leaves the wizard state, the
\* agent address, the owner list, the active vault and the registry as they
\* were, in memory and in the files.
C30_FaultLeavesOnboardingState ==
    [][( ret'.op \in OnboardingOps /\ ret'.threw )
         => UNCHANGED <<wizardState, agentAddress, ownerAddresses,
                        safeAddress, safes, disk>>
      ]_vars

\* checkAgentFunds threw on the balance read after an owner was added: the
\* wizard is still ready to deploy, in memory and in state.json.
C30_Witness ==
    /\ ret = Fault("checkAgentFunds", "rpc")
    /\ wizardState = "READY_TO_DEPLOY_SAFE"
    /\ disk.state.wizardState = "READY_TO_DEPLOY_SAFE"
    /\ Len(disk.state.ownerAddresses) = 1

\* C29: a successful checkProposalStatus of a hash of the ledger leaves the
\* stored status EXECUTED, with the service's execution hash, when the
\* service reports the execution, and OWNER_CONFIRMED when it does not and
\* the confirmations reach the required threshold; below the threshold the
\* Proposal is left alone, and a call that fetches the record the call
\* before it fetched leaves the ledger as that call left it.
C29_CheckIdempotent ==
    [][\A h \in KnownHashes :
          ( /\ checkProposalStatus(h)
            /\ ~ret'.threw
            /\ h \in DOMAIN proposals )
          => LET details == remote[h]
                 enough == Len(details.confirmations)
                               >= details.confirmationsRequired
             IN  /\ details.isExecuted
                    => /\ proposals'[h].status = "EXECUTED"
                       /\ proposals'[h].executedTxHash
                              = details.transactionHash
                 /\ ( ~details.isExecuted /\ enough )
                    => proposals'[h].status = "OWNER_CONFIRMED"
                 /\ ( ~details.isExecuted /\ ~enough )
                    => proposals' = proposals
                 /\ ret = ret' => proposals' = proposals
                 /\ \A g \in DOMAIN proposals \ {h} :
                        proposals'[g] = proposals[g]
      ]_vars

\* checkProposalStatus fetched an executed record with the agent's and an
\* owner's confirmation: the Proposal is EXECUTED with the execution hash.
C29_Witness ==
    /\ ret.op = "checkProposalStatus"
    /\ ~ret.threw
    /\ ret.isExecuted
    /\ Len(ret.confirmations) = 2
    /\ ret.safeTxHash \in DOMAIN proposals
    /\ proposals[ret.safeTxHash].status = "EXECUTED"
    /\ proposals[ret.safeTxHash].executedTxHash = ExecTx(ret.safeTxHash)

(***************************************************************************)
(* Properties of the switch of the active vault.                           *)
(***************************************************************************)
\* No record of the registry has this address.
NoRecordOf(address) ==
    \A i \in 1 .. Len(safes) :
        toLowerCase(safes[i].address) # toLowerCase(address)

Recorded(reg, safe) ==
    \E i \in 1 .. Len(reg) :
        /\ toLowerCase(reg[i].address) = toLowerCase(safe.address)
        /\ reg[i].chainId = safe.chainId

\* C22: the registry only grows at its end and never holds two records of
\* one address (letter case ignored) on one network; recordSafe of a pair
\* that is present leaves the registry as it is, recordSafe of any other
\* pair, the same address on another network included, appends the record;
\* safes.json holds the registry after every call.
C22_RegistryAppendOnlyUnique ==
    [][/\ Len(safes') >= Len(safes)
       /\ \A i \in 1 .. Len(safes) : safes'[i] = safes[i]
       /\ \A i, j \in 1 .. Len(safes') :
              ( /\ toLowerCase(safes'[i].address)
                       = toLowerCase(safes'[j].address)
                /\ safes'[i].chainId = safes'[j].chainId )
              => i = j
       /\ \A safe \in SafeRecords :
              recordSafe(safe)
              => /\ safes' = IF Recorded(safes, safe) THEN safes
                             ELSE Append(safes, safe)
                 /\ LoadedSafes(disk'.safes) = safes'
      ]_vars

\* The registry holds one address on both networks, and the last call was
\* recordSafe of a recorded pair in the other letter case, which did not
\* add a record.
C22_Witness ==
    /\ ret.op = "recordSafe"
    /\ \E i, j \in 1 .. Len(safes) :
           /\ safes[i].address = safes[j].address
           /\ safes[i].chainId # safes[j].chainId
    /\ \E i \in 1 .. Len(safes) :
           /\ toLowerCase(safes[i].address) = toLowerCase(ret.safe.address)
           /\ safes[i].address # ret.safe.address
           /\ safes[i].chainId = ret.safe.chainId
    /\ \A i \in 1 .. Len(safes) : safes[i] # ret.safe
    /\ LoadedSafes(disk.safes) = safes

\* C23: every hash that is a key of the ledger stays a key, in memory and
\* in state.json, and its Proposal keeps its description, destination and
\* value.
C23_ProposalsNeverDeleted ==
    [][/\ \A h \in DOMAIN proposals :
              /\ h \in DOMAIN proposals'
              /\ proposals'[h].description = proposals[h].description
              /\ proposals'[h].to = proposals[h].to
              /\ proposals'[h].value = proposals[h].value
       /\ \A h \in DOMAIN disk.state.proposals :
              /\ h \in DOMAIN disk'.state.proposals
              /\ disk'.state.proposals[h].description
                     = disk.state.proposals[h].description
              /\ disk'.state.proposals[h].to = disk.state.proposals[h].to
              /\ disk'.state.proposals[h].value
                     = disk.state.proposals[h].value
      ]_vars

\* C28: with two processes, every write of state.json is the whole
\* in-memory document of the process that saves, whatever the file held:
\* after addOwnerAddress in either process the file is that process's
\* document.
C28_SaveOverwritesWholeDocument ==
    [][/\ disk'.state # disk.state
          => disk'.state = DocAfter \/ disk'.state = peer'.state
       /\ ( ret' # ret /\ ret'.op = "addOwnerAddress" /\ ~ret'.threw )
          => disk'.state = DocAfter
       /\ peer'.state # peer.state /\ peer.up /\ peer'.up /\ disk' # disk
          => disk'.state = peer'.state
      ]_vars

\* The first process added an owner and saved it; the second process, which
\* had loaded the state before, then saved its own document: the owner is
\* no longer in state.json, which holds an owner the second process added.
C28_Witness ==
    /\ ret.op = "addOwnerAddress"
    /\ ~ret.threw
    /\ ret.ownerAddress \in Range(ownerAddresses)
    /\ ret.ownerAddress \notin Range(disk.state.ownerAddresses)
    /\ peer.up
    /\ disk.state = peer.state
    /\ Len(disk.state.ownerAddresses) = 1

(***************************************************************************)
(* Properties of the assets.                                               *)
(***************************************************************************)
\* Two tokens have the same address, letter case ignored.
SameAddress(t, u) == toLowerCase(t.address) = toLowerCase(u.address)

\* C26: for every network the merged token list starts with the default
\* tokens, holds no address twice, and holds after them exactly the custom
\* tokens of that network whose address no default token has; the custom
\* tokens of one network never share an address; and addToken changes the
\* custom tokens of the network of the operations object only.  The lists
\* are looked at whenever the custom tokens change.
C26_MergedTokens ==
    [][/\ customTokens' # customTokens
          => \A c \in Chains :
              LET custom == customTokens'[c]
                  merged == SM_getTokens(customTokens', c, DefaultTokens)
                  added == SubSeq(merged, Len(DefaultTokens) + 1, Len(merged))
              IN  /\ SubSeq(merged, 1, Len(DefaultTokens)) = DefaultTokens
                  /\ \A i, j \in 1 .. Len(merged) :
                         SameAddress(merged[i], merged[j]) => i = j
                  /\ added =
                         SelectSeq(custom,
                             LAMBDA t : \A d \in Range(DefaultTokens) :
                                           ~SameAddress(t, d))
                  /\ \A k, l \in 1 .. Len(custom) :
                         SameAddress(custom[k], custom[l]) => k = l
       /\ ( ret'.op = "addToken" /\ ~ret'.threw )
          => /\ \A c \in Chains \ {ret'.chainId} :
                    customTokens'[c] = customTokens[c]
             /\ \E t \in Range(customTokens'[ret'.chainId]) :
                    SameAddress(t, ret'.token)
      ]_vars

\* One network has two custom tokens, one of them at the address of the
\* default USDC, and its merged list holds the default USDC and one custom
\* token; the other network has a custom token of its own under another
\* symbol.
C26_Witness ==
    \E c, d \in Chains :
        /\ c # d
        /\ Len(customTokens[c]) = 2
        /\ \E k \in 1 .. 2 : customTokens[c][k].symbol = "FAKE"
        /\ Len(SM_getTokens(customTokens, c, DefaultTokens)) = 3
        /\ SM_getTokens(customTokens, c, DefaultTokens)[1] = DefaultTokens[1]
        /\ Len(customTokens[d]) = 1
        /\ customTokens[d][1] \notin Range(customTokens[c])

\* The text is no symbol or address of the merged token list, not the
\* native alias, and no address.
Unresolvable(text) ==
    /\ text # "ETH"
    /\ FindToken(Tokens, text) = 0
    /\ ~isAddress(TextAddr(text))

\* The text is an address that the merged token list does not hold.
UnlistedAddress(text) ==
    /\ FindToken(Tokens, text) = 0
    /\ isAddress(TextAddr(text))

\* The faults by which a resolution says that it cannot resolve the asset.
UnresolvableAssetFaults ==
    {"not found in allowlist and is not a valid address",
     "Could not resolve decimals"}

\* The faults a propose operation throws before it resolves its asset.
FaultsBeforeResolution ==
    {"Safe not deployed yet", "No wallet loaded", "init"}

\* C24: a propose operation given a text that is neither in the merged
\* token list nor an address throws, submits nothing and saves no Proposal;
\* unless it failed before it came to the asset, the fault it throws is the
\* resolution's unresolvable-asset fault.
C24_UnresolvableAssetFault ==
    [][\A intent \in AssetIntents :
          ( propose(intent) /\ Unresolvable(intent.token) )
          => /\ ret'.threw
             /\ UNCHANGED <<proposals, remote>>
             /\ ret'.msg \in
                    UnresolvableAssetFaults \cup FaultsBeforeResolution
      ]_vars

\* An amount appears among the arguments of the calls.
HasArgument(calls, amount) ==
    \E k \in 1 .. Len(calls) :
        \E j \in 1 .. Len(calls[k].args) : calls[k].args[j] = amount

\* C25: a propose operation that succeeds for an address outside the merged
\* token list scales the amount by the decimals read from that contract,
\* and not by 18 assumed decimals.
C25_DecimalsReadOnChain ==
    [][\A intent \in AssetIntents :
          ( /\ propose(intent)
            /\ ~ret'.threw
            /\ ret'.intent = intent
            /\ UnlistedAddress(intent.token) )
          => /\ HasArgument(ret'.safeTx.calls,
                            parseUnits(intent.amount, UnlistedDecimals))
             /\ ~HasArgument(ret'.safeTx.calls,
                             parseUnits(intent.amount, 18))
      ]_vars

(***************************************************************************)
(* Properties of the funding check and of the order of the onboarding.     *)
(***************************************************************************)
\* C33: checkAgentFunds throws only when the wallet is missing or fails its
\* integrity check or the balance cannot be read, never for a balance below
\* the minimum; when it returns,
\* ok is (balance >= minimum) and the wizard state is AWAIT_OWNER_ADDRESS if
\* ok and AWAIT_USER_FUNDS_CONFIRMATION otherwise, whatever it was before.
C33_FundsReportedNotThrown ==
    [][ret'.op = "checkAgentFunds"
       => IF ret'.threw
          THEN ret'.msg \in {"No wallet found", "address mismatch", "rpc"}
          ELSE /\ ret'.ok = (ret'.balanceWei >= ret'.minRequired)
               /\ wizardState' =
                      IF ret'.balanceWei >= ret'.minRequired
                      THEN "AWAIT_OWNER_ADDRESS"
                      ELSE "AWAIT_USER_FUNDS_CONFIRMATION"
      ]_vars

\* A balance below the minimum was reported, not thrown.
C33_Witness ==
    /\ ret.op = "checkAgentFunds"
    /\ ~ret.threw
    /\ ~ret.ok
    /\ ret.balanceWei < ret.minRequired
    /\ wizardState = "AWAIT_USER_FUNDS_CONFIRMATION"

\* C34: addOwnerAddress advances the wizard to READY_TO_DEPLOY_SAFE only
\* from AWAIT_OWNER_ADDRESS, where a check of the agent's funds found them
\* sufficient, or from READY_TO_DEPLOY_SAFE itself.
C34_ReadyOnlyFromAwaitOwner ==
    [][( /\ ret'.op = "addOwnerAddress"
         /\ wizardState' = "READY_TO_DEPLOY_SAFE" )
       => wizardState \in {"AWAIT_OWNER_ADDRESS", "READY_TO_DEPLOY_SAFE"}
      ]_vars

(***************************************************************************)
(* Properties of the status of a proposal and of the ledger's keys.        *)
(***************************************************************************)
\* C35: the confirmedByOwner field checkProposalStatus returns is true
\* exactly when the record holds two confirmations or more, whatever the
\* threshold of the transaction is.
C35_ConfirmedByOwnerIsTwo ==
    ( ret.op = "checkProposalStatus" /\ ~ret.threw )
    => ret.confirmedByOwner = (Len(ret.confirmations) >= 2)

\* A status whose confirmedByOwner disagrees with the threshold: one
\* confirmation meets a threshold of 1, or two do not meet a threshold of 3.
C35_Witness ==
    /\ ret.op = "checkProposalStatus"
    /\ ~ret.threw
    /\ ret.confirmationsRequired # 2
    /\ ret.confirmedByOwner
           # (Len(ret.confirmations) >= ret.confirmationsRequired)

C36_RestartReloadsTheSame ==
    [][/\ disk'.state = DocAfter
       /\ LoadedSafes(disk'.safes) = safes'
       /\ ret'.op = "constructor" => ( DocAfter = Doc /\ safes' = safes )
      ]_vars

\* A process was started over files that hold an owner, a vault of the
\* other network as the active one, a Proposal and a custom token.
C36_Witness ==
    /\ ret.op = "constructor"
    /\ ownerAddresses # <<>>
    /\ safeAddress # NoAddr
    /\ \E i \in 1 .. Len(safes) : safes[i].chainId # DEFAULT_CHAIN_ID
    /\ DOMAIN proposals # {}
    /\ \E c \in Chains : customTokens[c] # <<>>

\* C31: a process that dies in addOwnerAddress or deploySafe leaves the
\* files either as they were before the command or as the complete command
\* would have left them.
C31_CrashLeavesPreOrPostState ==
    [][ret'.op = "crash" => ( disk' = disk \/ disk' = ret'.complete )]_vars

\* C37: when the wizard state is SAFE_DEPLOYED or READY, an active vault
\* and its deployment transaction are set; and when an active vault is set,
\* the registry holds a record with its address.
C37_ActiveVaultSetAndRecorded ==
    /\ wizardState \in {"SAFE_DEPLOYED", "READY"}
           => ( safeAddress # NoAddr /\ deployTxHash # NoTx )
    /\ safeAddress # NoAddr
           => \E i \in 1 .. Len(safes) :
                  toLowerCase(safes[i].address) = toLowerCase(safeAddress)

(***************************************************************************)
(* Properties of the stored identity.                                      *)
(***************************************************************************)
\* C32: start throws the integrity fault exactly when wallet.json exists
\* and the address its private key derives is not its stored address; it
\* then leaves the wizard state and the agent address as they were, in
\* memory and in state.json, and wallet.json as it was: no identity is
\* generated.
C32_StartIntegrityFault ==
    [][start
       => /\ ret'.threw <=> AddressMismatch
          /\ ret'.threw
                 => /\ ret'.msg = "address mismatch"
                    /\ UNCHANGED <<wizardState, agentAddress, walletFile,
                                   walletKey, disk>>
      ]_vars

\* start threw the integrity fault after the onboarding had advanced.
C32_Witness ==
    /\ ret = Fault("start", "address mismatch")
    /\ AddressMismatch
    /\ wizardState = "READY"
    /\ agentAddress # walletFile

(***************************************************************************)
(* Properties of the two fetches of executeIfReady.                        *)
(***************************************************************************)
\* C40: the record executeIfReady fetched to build the execution it
\* submitted is not executed and holds at least the required confirmations.
C40_SubmittedRecordStillReady ==
    ( ret.op = "executeIfReady" /\ "txResponse" \in DOMAIN ret )
    => /\ ~ret.txResponse.isExecuted
       /\ Len(ret.txResponse.confirmations)
              >= ret.txResponse.confirmationsRequired

(***************************************************************************)
(* Properties of the keys of the ledger.                                   *)
(***************************************************************************)
\* The step is checkProposalStatus, executeIfReady (either half) or
\* agentSignTransaction, called with this hash.
ReadsStatusOf(safeTxHash) ==
    \/ checkProposalStatus(safeTxHash)
    \/ executeIfReady(safeTxHash)
    \/ executeIfReadyResume /\ inflight.safeTxHash = safeTxHash
    \/ agentSignTransaction(safeTxHash)

\* C39: the ledger gets a new key only by a propose operation that
\* succeeds, the key being the hash it returns; checkProposalStatus,
\* executeIfReady and agentSignTransaction called with a hash that is no
\* key of the ledger leave the ledger as it is.
C39_LedgerKeysOnlyByPropose ==
    [][/\ DOMAIN proposals' # DOMAIN proposals
          => /\ ret'.op = "propose"
             /\ ~ret'.threw
             /\ DOMAIN proposals' = DOMAIN proposals \cup {ret'.safeTxHash}
       /\ \A h \in KnownHashes \ DOMAIN proposals :
              ReadsStatusOf(h) => proposals' = proposals
      ]_vars

\* The agent confirmed a transaction an owner proposed, which met its
\* threshold thereby, and the ledger has no entry for it.
C39_Witness ==
    /\ ret.op = "agentSignTransaction"
    /\ ~ret.threw
    /\ ret.signed
    /\ ret.safeTxHash \notin DOMAIN proposals
    /\ Len(remote[ret.safeTxHash].confirmations)
           >= remote[ret.safeTxHash].confirmationsRequired

====
